---- MODULE Spec2Model ----
(***************************************************************************)
(* Local-first sync engine of goal-planner: the outbox (syncQueue), its    *)
(* compactor, the repository write helpers, the debounced push drain and   *)
(* the retry/backoff bookkeeping.                                          *)
(*                                                                         *)
(* Outbox rows use the intent format of src/lib/sync/queue.ts              *)
(* (operationType/field/value).  The older payload format                  *)
(* (operation = create|update|delete, payload) is read as: 'update' with   *)
(* payload p  ==  'set' with no field and value p.  A remote mutation is   *)
(* operationToMutation(item) executed by processSyncItem.                  *)
(* Time is in milliseconds.                                                *)
(***************************************************************************)
EXTENDS Integers, Sequences, FiniteSets, TLC

VARIABLES
  local,        \* local entity tables (IndexedDB): entity id -> row
  remote,       \* remote tables (Supabase): entity id -> row
  syncQueue,    \* db.syncQueue, a sequence of rows in primary-key order
  nextId,       \* the ++id auto-increment of db.syncQueue
  now,          \* Date.now()
  online,       \* navigator.onLine
  remoteOk,     \* TRUE while the remote accepts mutations
  syncTimeout,  \* engine.ts module variable: <<>> (null) or <<handle>>
  timers,       \* pending setTimeout handles (a handle is its deadline)
  drains,       \* executions of pushChanges: slot -> record
  sentLog,      \* history: the requests the drains have sent to the remote
  syncStatus,   \* syncStatusStore
  listening,    \* TRUE while handleOnline is registered for 'online'
  helper,       \* the repository write helper in flight
  origQueue,    \* history: the outbox before the first compaction
  origRemote,   \* history: the remote before the drain
  prevQueue,    \* history: the outbox before the latest compaction
  coalesceRuns, \* history: number of coalescePendingOps runs
  lastCoalesced, \* history: return value of the latest coalescePendingOps
  pull,         \* the execution of fetchGoalLists in flight
  statusStore,  \* the debounced sync status store (utils/dates.ts)
  boot,         \* localStorage lastSyncTimestamp and the app load
  resolved,     \* results of resolving one conflict on two devices
  conflictHistory, \* the conflict_history table
  realtime,     \* realtime ingress: recently modified marks, events in flight
  network,      \* stores/network.ts: the closure state of the network store
  hist          \* history: increments made, status requests

vars == <<local, remote, syncQueue, nextId, now, online, remoteOk, syncTimeout,
          timers, drains, sentLog, syncStatus, listening, helper, origQueue,
          origRemote, prevQueue, coalesceRuns, lastCoalesced, pull, statusStore,
          boot, resolved, conflictHistory, realtime, network, hist>>

\* the variables of the pull, the status store, the app load and the resolver
extVars == <<pull, statusStore, boot, resolved, conflictHistory, realtime, network, hist>>

(***************************************************************************)
(* Program constants                                                       *)
(***************************************************************************)
MAX_SYNC_RETRIES == 5
SYNC_DEBOUNCE_MS == 1500
MIN_SYNCING_TIME == 500
ECHO_WINDOW_MS == 2000

(***************************************************************************)
(* Bounds of the model                                                     *)
(***************************************************************************)
MaxOps == 3       \* longest outbox drawn as input of the compactor
MaxTicks == 2     \* clock ticks explored
MaxQueue == 2     \* outbox rows the write helpers may add
MaxCoalesceRuns == 2  \* coalescePendingOps runs before a drain
MaxStatusTicks == 7   \* clock ticks explored around the status store
MaxIncrements == 1    \* increments of a goal made on each device
MaxEvents == 1        \* realtime events in flight
MaxHistory == 2       \* entries kept in the conflict history
MaxReconnects == 2    \* reconnect timeouts pending at a time

\* Clock granularity: the debounce delay.
TickMs == SYNC_DEBOUNCE_MS

RECURSIVE Pow2(_)
\* Math.pow(2, n) for the exponents the backoff uses
Pow2(n) == IF n <= 0 THEN 1 ELSE 2 * Pow2(n - 1)

\* Date.now() when the model starts: the longest backoff (8 s) after time 0,
\* so that a row last attempted at time 0 may be eligible again
StartMs == Pow2(MAX_SYNC_RETRIES - 2) * 1000

(***************************************************************************)
(* Data                                                                    *)
(***************************************************************************)
Entities == {"g1", "t1"}
Fields == {"current_value", "name"}

TableOf(e) == IF e = "g1" THEN "goals" ELSE "daily_tasks"

\* An optional value: <<>> is undefined, <<v>> is v.
Undefined == <<>>
Some(v) == <<v>>

EmptyObj == [f \in Fields |-> Undefined]

\* A row of an entity table.  present = FALSE: no row with this id.
NoRow == [present |-> FALSE, deleted |-> FALSE, updated_at |-> 0,
          vals |-> [f \in Fields |-> 0]]
Row(vs, ts) == [present |-> TRUE, deleted |-> FALSE, updated_at |-> ts, vals |-> vs]

ZeroVals == [f \in Fields |-> 0]

\* item.value: a number (single-field set, increment), an object
\* (create, multi-field set) or undefined (delete).
NumValue(n) == [tag |-> "number", num |-> n, obj |-> EmptyObj]
ObjValue(o) == [tag |-> "object", num |-> 0, obj |-> o]
NoValue == [tag |-> "undefined", num |-> 0, obj |-> EmptyObj]

SyncOperationItem(id, e, type, field, value, ts, retries) ==
  [id |-> id, table |-> TableOf(e), entityId |-> e, operationType |-> type,
   field |-> field, value |-> value, timestamp |-> ts, retries |-> retries]

(***************************************************************************)
(* Sequence helpers                                                        *)
(***************************************************************************)
RECURSIVE SelectSeqBy(_, _)
\* Array.prototype.filter with a set of accepted ids
SelectSeqBy(s, ids) ==
  IF s = <<>> THEN <<>>
  ELSE IF Head(s).id \in ids THEN <<Head(s)>> \o SelectSeqBy(Tail(s), ids)
       ELSE SelectSeqBy(Tail(s), ids)

RECURSIVE InsertByTimestamp(_, _)
\* insert x behind every element whose timestamp is <= x.timestamp
InsertByTimestamp(sorted, x) ==
  IF sorted = <<>> THEN <<x>>
  ELSE IF Head(sorted).timestamp <= x.timestamp
       THEN <<Head(sorted)>> \o InsertByTimestamp(Tail(sorted), x)
       ELSE <<x>> \o sorted

RECURSIVE SortByTimestamp(_)
\* stable sort, oldest first (Array.sort on timestamps; orderBy('timestamp'),
\* where equal keys keep primary-key order)
SortByTimestamp(s) ==
  IF s = <<>> THEN <<>>
  ELSE InsertByTimestamp(SortByTimestamp(SubSeq(s, 1, Len(s) - 1)), s[Len(s)])

ItemIds(s) == {s[i].id : i \in 1..Len(s)}

ItemById(s, id) == CHOOSE x \in {s[i] : i \in 1..Len(s)} : x.id = id

(***************************************************************************)
(* queue.ts                                                                *)
(***************************************************************************)
RECURSIVE MergeSetValues(_, _)
\* queue.ts 39-48: fold the set items, oldest first, later values override
MergeSetValues(setItems, mergedValue) ==
  IF setItems = <<>> THEN mergedValue
  ELSE LET item == Head(setItems)
           next == IF item.field # Undefined
                   THEN [mergedValue EXCEPT ![item.field[1]] = Some(item.value.num)]
                   ELSE IF item.value.tag = "object"
                        THEN [f \in Fields |->
                                IF item.value.obj[f] # Undefined
                                THEN item.value.obj[f] ELSE mergedValue[f]]
                        ELSE mergedValue
       IN MergeSetValues(Tail(setItems), next)

\* queue.ts 25-69, one group: the ids deleted and the row updated
GroupKeys(queue) == {<<queue[i].table, queue[i].entityId>> : i \in 1..Len(queue)}

GroupSetItems(queue, key) ==
  SortByTimestamp(SelectSeq(queue, LAMBDA it :
      /\ <<it.table, it.entityId>> = key
      /\ it.operationType = "set"))

GroupSize(queue, key) ==
  Cardinality({i \in 1..Len(queue) : <<queue[i].table, queue[i].entityId>> = key})

\* groups whose set items are merged
MergingKeys(queue) ==
  {key \in GroupKeys(queue) :
      GroupSize(queue, key) > 1 /\ Len(GroupSetItems(queue, key)) > 1}

\* variant of the merge that deletes only the newest set item of a group
CoalesceDeletedIds_OnlyNewest(queue) ==
  {GroupSetItems(queue, key)[Len(GroupSetItems(queue, key))].id :
     key \in MergingKeys(queue)}

\* ids of the newer set items, deleted by the merge (queue.ts 52, 63-68)
CoalesceDeletedIds(queue) ==
  UNION {ItemIds(Tail(GroupSetItems(queue, key))) : key \in MergingKeys(queue)}

\* the oldest set item of a merging group with the merged value (queue.ts 51-60)
CoalesceUpdate(queue, it) ==
  LET key == <<it.table, it.entityId>> IN
  IF key \in MergingKeys(queue) /\ it.id = Head(GroupSetItems(queue, key)).id
  THEN [it EXCEPT !.value = ObjValue(MergeSetValues(GroupSetItems(queue, key), EmptyObj)),
                  !.field = Undefined]
  ELSE it

\* queue.ts 10-76: the outbox after coalescePendingOps
CoalescedQueue(queue) ==
  IF Len(queue) <= 1 THEN queue
  ELSE LET kept == SelectSeqBy(queue, ItemIds(queue) \ CoalesceDeletedIds(queue))
       IN [i \in 1..Len(kept) |-> CoalesceUpdate(queue, kept[i])]

\* queue.ts 10-76: the number coalescePendingOps returns
CoalescedCount(queue) ==
  IF Len(queue) <= 1 THEN 0 ELSE Cardinality(CoalesceDeletedIds(queue))

\* queue.ts 80-92
shouldRetryItem(item, t) ==
  IF item.retries >= MAX_SYNC_RETRIES THEN FALSE
  ELSE IF item.retries = 0 THEN TRUE
  ELSE (t - item.timestamp) >= Pow2(item.retries - 1) * 1000

\* queue.ts 94-98
getPendingSync(queue, t) ==
  SelectSeq(SortByTimestamp(queue), LAMBDA item : shouldRetryItem(item, t))

\* queue.ts 125-127
removeSyncItem(queue, id) == SelectSeq(queue, LAMBDA item : item.id # id)

\* queue.ts 129-138
incrementRetry(queue, id, t) ==
  [i \in 1..Len(queue) |->
     IF queue[i].id = id
     THEN [queue[i] EXCEPT !.retries = queue[i].retries + 1, !.timestamp = t]
     ELSE queue[i]]

\* queue.ts 154-170
queueSyncOperation(queue, id, e, type, field, value, t) ==
  Append(queue, SyncOperationItem(id, e, type, field, value, t, 0))

(***************************************************************************)
(* operations.ts: operationToMutation                                      *)
(***************************************************************************)
Mutation(type, fields, deleted, ts) ==
  [mutationType |-> type, fields |-> fields, deleted |-> deleted, updated_at |-> ts]

\* operations.ts 20-89.  currentValue is an optional number.
operationToMutation(operation, currentValue) ==
  CASE operation.operationType = "create" ->
         Mutation("insert", operation.value.obj, Undefined, operation.timestamp)
    [] operation.operationType = "delete" ->
         Mutation("update", EmptyObj, Some(TRUE), operation.timestamp)
    [] operation.operationType = "increment" ->
         LET base == IF currentValue # Undefined THEN currentValue[1] ELSE 0
             delta == IF operation.value.tag = "number" THEN operation.value.num ELSE 0
         IN Mutation("update",
                     [EmptyObj EXCEPT ![operation.field[1]] = Some(base + delta)],
                     Undefined, operation.timestamp)
    [] OTHER ->
         IF operation.field # Undefined
         THEN Mutation("update",
                       [EmptyObj EXCEPT ![operation.field[1]] = Some(operation.value.num)],
                       Undefined, operation.timestamp)
         ELSE Mutation("update", operation.value.obj, Undefined, operation.timestamp)

\* The value handed to operationToMutation for an increment: the field of
\* the remote row read at push time (read-modify-write).
CurrentValue(operation, rem) ==
  IF operation.operationType = "increment" /\ operation.field # Undefined
     /\ rem[operation.entityId].present
  THEN Some(rem[operation.entityId].vals[operation.field[1]])
  ELSE Undefined

(***************************************************************************)
(* engine.ts: processSyncItem, syncRemoteToLocal                           *)
(***************************************************************************)
\* the row a payload writes over an existing row (supabase update)
UpdatedRow(row, m) ==
  [row EXCEPT !.vals = [f \in Fields |->
                          IF m.fields[f] # Undefined THEN m.fields[f][1] ELSE @[f]],
              !.deleted = IF m.deleted # Undefined THEN m.deleted[1] ELSE @,
              !.updated_at = m.updated_at]

\* the row an insert creates (supabase insert)
InsertedRow(m) ==
  Row([f \in Fields |-> IF m.fields[f] # Undefined THEN m.fields[f][1] ELSE 0],
      m.updated_at)

\* engine.ts 639-662: only the four tables of the switch are written
syncRemoteToLocal(loc, rem, table, e) ==
  IF ~rem[e].present THEN loc
  ELSE IF table \in {"goal_lists", "goals", "daily_routine_goals", "daily_goal_progress"}
       THEN [loc EXCEPT ![e] = rem[e]]
       ELSE loc

\* engine.ts 570-636 applied to the mutation of an outbox row.
\* ok = FALSE: the remote answers every request with an error.
processSyncItem(item, rem, loc, ok) ==
  LET e == item.entityId
      m == operationToMutation(item, CurrentValue(item, rem))
      same == [remote |-> rem, local |-> loc]
  IN
  IF ~ok THEN same @@ [result |-> "error"]
  ELSE IF m.mutationType = "insert"
       THEN IF rem[e].present
            THEN same @@ [result |-> "applied"]   \* duplicate key: ignored
            ELSE [remote |-> [rem EXCEPT ![e] = InsertedRow(m)], local |-> loc,
                  result |-> "applied"]
  ELSE IF m.mutationType = "update"
       THEN IF ~rem[e].present
            THEN same @@ [result |-> "discarded"]
            ELSE IF rem[e].updated_at > m.updated_at
                 THEN [remote |-> rem,
                       local |-> syncRemoteToLocal(loc, rem, item.table, e),
                       result |-> "discarded"]
                 ELSE [remote |-> [rem EXCEPT ![e] = UpdatedRow(rem[e], m)],
                       local |-> loc, result |-> "applied"]
  ELSE [remote |-> [rem EXCEPT ![e] = NoRow], local |-> loc, result |-> "applied"]

(***************************************************************************)
(* stores/sync.ts                                                          *)
(***************************************************************************)
InitSyncState == [status |-> "idle", pendingCount |-> 0, lastSyncTime |-> Undefined]

setStatus(st, status) == [st EXCEPT !.status = status]
setPendingCount(st, count) == [st EXCEPT !.pendingCount = count]
setLastSyncTime(st, time) == [st EXCEPT !.lastSyncTime = Some(time)]

(***************************************************************************)
(* engine.ts: scheduleSyncPush and pushChanges                             *)
(***************************************************************************)
DrainSlots == {1, 2}

\* startedAt is history: Date.now() at the call of pushChanges
IdleDrain == [pc |-> "idle", pendingItems |-> <<>>, i |-> 0, result |-> "none",
              startedAt |-> 0]

InFlight == {d \in DrainSlots : drains[d].pc # "idle"}

\* a call of pushChanges runs in the lowest slot that is free
FreeSlot(d) == drains[d].pc = "idle" /\ \A d2 \in DrainSlots : d2 < d => drains[d2].pc # "idle"

\* engine.ts 521-529: clearTimeout of the stored handle, then setTimeout
TimersAfterSchedule(ts, handle, t) ==
  (IF handle # Undefined THEN ts \ {handle[1]} ELSE ts) \cup {t + SYNC_DEBOUNCE_MS}

scheduleSyncPush ==
  /\ timers' = TimersAfterSchedule(timers, syncTimeout, now)
  /\ syncTimeout' = Some(now + SYNC_DEBOUNCE_MS)

\* engine.ts 532-545 without the test of navigator.onLine
pushChanges_NoOfflineTest(d, onLine) ==
  /\ FreeSlot(d)
  /\ LET pendingItems == getPendingSync(syncQueue, now) IN
       IF Len(pendingItems) = 0
       THEN /\ syncStatus' = setStatus(syncStatus, "idle")
            /\ UNCHANGED drains
       ELSE /\ syncStatus' = setPendingCount(setStatus(syncStatus, "syncing"),
                                             Len(pendingItems))
            /\ drains' = [drains EXCEPT ![d] =
                  [pc |-> "send", pendingItems |-> pendingItems, i |-> 1,
                   result |-> "none", startedAt |-> now]]

\* engine.ts 532-545: the call of pushChanges up to the first loop iteration
pushChanges(d, onLine) ==
  /\ FreeSlot(d)
  /\ IF ~onLine
     THEN /\ syncStatus' = setStatus(syncStatus, "offline")
          /\ UNCHANGED drains
     ELSE LET pendingItems == getPendingSync(syncQueue, now) IN
          IF Len(pendingItems) = 0
          THEN /\ syncStatus' = setStatus(syncStatus, "idle")
               /\ UNCHANGED drains
          ELSE /\ syncStatus' = setPendingCount(setStatus(syncStatus, "syncing"),
                                                Len(pendingItems))
               /\ drains' = [drains EXCEPT ![d] =
                     [pc |-> "send", pendingItems |-> pendingItems, i |-> 1,
                      result |-> "none", startedAt |-> now]]

\* the request of one loop iteration as the history records it
\* (attempt: the retries of the drain's copy of the row; queued, retries,
\* waited: the row as it is in the outbox when the request goes out, with the
\* time since its timestamp)
SentRecord(d, item) ==
  [id |-> item.id, slot |-> d, attempt |-> item.retries,
   queued |-> item.id \in ItemIds(syncQueue),
   retries |-> IF item.id \in ItemIds(syncQueue)
               THEN ItemById(syncQueue, item.id).retries ELSE 0,
   waited |-> IF item.id \in ItemIds(syncQueue)
              THEN now - ItemById(syncQueue, item.id).timestamp ELSE 0]

\* engine.ts 547-549: await processSyncItem(item)
PushSend(d) ==
  /\ drains[d].pc = "send"
  /\ LET item == drains[d].pendingItems[drains[d].i]
         r == processSyncItem(item, remote, local, remoteOk)
     IN /\ remote' = r.remote
        /\ local' = r.local
        /\ sentLog' = sentLog \cup {SentRecord(d, item)}
        /\ drains' = [drains EXCEPT ![d].pc = "settle", ![d].result = r.result]
  /\ UNCHANGED <<extVars, syncQueue, nextId, now, online, remoteOk, syncTimeout, timers,
                 syncStatus, listening, helper, origQueue, origRemote, prevQueue,
                 coalesceRuns, lastCoalesced>>

\* engine.ts 550-558: removeSyncItem on success, incrementRetry on a throw
QueueAfterAttempt(queue, id, result, t) ==
  IF result = "error" THEN incrementRetry(queue, id, t) ELSE removeSyncItem(queue, id)

PushSettle(d) ==
  /\ drains[d].pc = "settle"
  /\ LET item == drains[d].pendingItems[drains[d].i] IN
       syncQueue' = QueueAfterAttempt(syncQueue, item.id, drains[d].result, now)
  /\ drains' = [drains EXCEPT
        ![d].pc = IF drains[d].i < Len(drains[d].pendingItems) THEN "send" ELSE "finish",
        ![d].i = @ + 1,
        ![d].result = "none"]
  /\ UNCHANGED <<extVars, local, remote, nextId, now, online, remoteOk, syncTimeout, timers,
                 sentLog, syncStatus, listening, helper, origQueue, origRemote,
                 prevQueue, coalesceRuns, lastCoalesced>>

\* engine.ts 561-567
StatusAfterDrain(st, queue, t) ==
  LET remaining == getPendingSync(queue, t)
      s1 == setStatus(setPendingCount(st, Len(remaining)),
                      IF Len(remaining) > 0 THEN "error" ELSE "idle")
  IN IF Len(remaining) = 0 THEN setLastSyncTime(s1, t) ELSE s1

PushFinish(d) ==
  /\ drains[d].pc = "finish"
  /\ syncStatus' = StatusAfterDrain(syncStatus, syncQueue, now)
  /\ drains' = [drains EXCEPT ![d] = IdleDrain]
  /\ UNCHANGED <<extVars, local, remote, syncQueue, nextId, now, online, remoteOk, syncTimeout,
                 timers, sentLog, listening, helper, origQueue, origRemote,
                 prevQueue, coalesceRuns, lastCoalesced>>

(***************************************************************************)
(* Triggers of pushChanges                                                 *)
(***************************************************************************)
\* the setTimeout callback of scheduleSyncPush (engine.ts 526-528)
TimerFire(d) ==
  /\ \E h \in timers : h <= now /\ timers' = timers \ {h}
  /\ pushChanges(d, online)
  /\ UNCHANGED <<extVars, local, remote, syncQueue, nextId, now, online, remoteOk, syncTimeout,
                 sentLog, listening, helper, origQueue, origRemote, prevQueue,
                 coalesceRuns, lastCoalesced>>

\* engine.ts 1158-1167: startSyncEngine
StartSyncEngine(d) ==
  /\ ~listening
  /\ listening' = TRUE
  /\ IF online THEN pushChanges(d, online)
     ELSE FreeSlot(d) /\ UNCHANGED <<extVars, drains, syncStatus>>
  /\ UNCHANGED <<extVars, local, remote, syncQueue, nextId, now, online, remoteOk, syncTimeout,
                 timers, sentLog, helper, origQueue, origRemote, prevQueue,
                 coalesceRuns, lastCoalesced>>

\* the 'online' event: engine.ts 1142-1145 handleOnline, when registered
GoOnline(d) ==
  /\ ~online
  /\ online' = TRUE
  /\ IF listening THEN pushChanges(d, TRUE)
     ELSE FreeSlot(d) /\ UNCHANGED <<extVars, drains, syncStatus>>
  /\ UNCHANGED <<extVars, local, remote, syncQueue, nextId, now, remoteOk, syncTimeout, timers,
                 sentLog, listening, helper, origQueue, origRemote, prevQueue,
                 coalesceRuns, lastCoalesced>>

GoOffline ==
  /\ online
  /\ online' = FALSE
  /\ UNCHANGED <<extVars, local, remote, syncQueue, nextId, now, remoteOk, syncTimeout, timers,
                 drains, sentLog, syncStatus, listening, helper, origQueue, origRemote,
                 prevQueue, coalesceRuns, lastCoalesced>>

\* SyncStatus.svelte 27-31 handleSyncClick, engine.ts 665-667 performSync
HandleSyncClick(d) ==
  /\ online /\ syncStatus.status # "syncing"
  /\ pushChanges(d, online)
  /\ UNCHANGED <<extVars, local, remote, syncQueue, nextId, now, online, remoteOk, syncTimeout,
                 timers, sentLog, listening, helper, origQueue, origRemote, prevQueue,
                 coalesceRuns, lastCoalesced>>

\* the remote starts or stops answering with errors
RemoteToggle ==
  /\ remoteOk' = ~remoteOk
  /\ UNCHANGED <<extVars, local, remote, syncQueue, nextId, now, online, syncTimeout, timers,
                 drains, sentLog, syncStatus, listening, helper, origQueue, origRemote,
                 prevQueue, coalesceRuns, lastCoalesced>>

\* the clock advances; a due timer fires before time moves on
Tick ==
  /\ now < StartMs + MaxTicks * TickMs
  /\ \A h \in timers : h > now
  /\ now' = now + TickMs
  /\ UNCHANGED <<extVars, local, remote, syncQueue, nextId, online, remoteOk, syncTimeout, timers,
                 drains, sentLog, syncStatus, listening, helper, origQueue, origRemote,
                 prevQueue, coalesceRuns, lastCoalesced>>

(***************************************************************************)
(* Repository write helpers                                                *)
(***************************************************************************)
IdleHelper == [op |-> "none", e |-> "g1", updates |-> EmptyObj, pc |-> "idle"]

\* the updates a caller passes: one field set to 1 or 2
UpdateChoices == {[EmptyObj EXCEPT ![f] = Some(v)] : f \in Fields, v \in {1, 2}}

\* Dexie table.update(id, changes): no row, no change
UpdatedLocal(row, updates, t) ==
  IF ~row.present THEN row
  ELSE [row EXCEPT !.vals = [f \in Fields |->
                               IF updates[f] # Undefined THEN updates[f][1] ELSE @[f]],
                   !.updated_at = t]

\* queue.ts (earlier version) queueSync: an update is merged into the first
\* pending update of the entity, whose timestamp is refreshed
ExistingUpdate(queue, e) ==
  {i \in 1..Len(queue) : /\ queue[i].entityId = e
                         /\ queue[i].table = TableOf(e)
                         /\ queue[i].operationType = "set"}

queueSync(queue, id, e, type, payload, t) ==
  IF type = "set" /\ ExistingUpdate(queue, e) # {}
  THEN LET i == CHOOSE j \in ExistingUpdate(queue, e) :
                   \A k \in ExistingUpdate(queue, e) : j <= k
       IN [queue EXCEPT ![i].value = ObjValue([f \in Fields |->
                                        IF payload[f] # Undefined THEN payload[f]
                                        ELSE queue[i].value.obj[f]]),
                        ![i].timestamp = t]
  ELSE Append(queue, SyncOperationItem(id, e, type, Undefined,
                                       IF type = "delete" THEN NoValue
                                       ELSE ObjValue(payload), t, 0))

\* dailyTasks.ts 6-39 createDailyTask: one Dexie transaction
CreateDailyTask(e) ==
  /\ helper.pc = "idle"
  /\ TableOf(e) = "daily_tasks"
  /\ ~local[e].present
  /\ nextId <= MaxQueue
  /\ local' = [local EXCEPT ![e] = Row(ZeroVals, now)]
  /\ syncQueue' = queueSyncOperation(syncQueue, nextId, e, "create", Undefined,
                                     ObjValue([f \in Fields |-> Some(0)]), now)
  /\ nextId' = nextId + 1
  /\ scheduleSyncPush
  /\ UNCHANGED <<extVars, remote, now, online, remoteOk, drains, sentLog, syncStatus, listening,
                 helper, origQueue, origRemote, prevQueue, coalesceRuns, lastCoalesced>>

\* dailyTasks.ts 73-83 deleteDailyTask: one Dexie transaction (tombstone)
DeleteDailyTask(e) ==
  /\ helper.pc = "idle"
  /\ TableOf(e) = "daily_tasks"
  /\ local[e].present /\ ~local[e].deleted
  /\ nextId <= MaxQueue
  /\ local' = [local EXCEPT ![e].deleted = TRUE, ![e].updated_at = now]
  /\ syncQueue' = queueSyncOperation(syncQueue, nextId, e, "delete", Undefined,
                                     NoValue, now)
  /\ nextId' = nextId + 1
  /\ scheduleSyncPush
  /\ UNCHANGED <<extVars, remote, now, online, remoteOk, drains, sentLog, syncStatus, listening,
                 helper, origQueue, origRemote, prevQueue, coalesceRuns, lastCoalesced>>

\* goals.ts 55-61 updateGoal, dailyTasks.ts 41-44 updateDailyTask:
\* await db.<table>.update(id, {...updates, updated_at})
UpdateWrite(e, updates) ==
  /\ helper.pc = "idle"
  /\ local[e].present /\ ~local[e].deleted
  /\ nextId <= MaxQueue
  /\ local' = [local EXCEPT ![e] = UpdatedLocal(local[e], updates, now)]
  /\ helper' = [op |-> "update", e |-> e, updates |-> updates, pc |-> "queue"]
  /\ UNCHANGED <<extVars, remote, syncQueue, nextId, now, online, remoteOk, syncTimeout, timers,
                 drains, sentLog, syncStatus, listening, origQueue, origRemote,
                 prevQueue, coalesceRuns, lastCoalesced>>

\* goals.ts 63-70, dailyTasks.ts 46-52: get, queueSync, scheduleSyncPush
UpdateQueue ==
  /\ helper.pc = "queue" /\ helper.op = "update"
  /\ helper' = IdleHelper
  /\ IF ~local[helper.e].present
     THEN UNCHANGED <<extVars, syncQueue, nextId, syncTimeout, timers>>
     ELSE /\ syncQueue' = queueSync(syncQueue, nextId, helper.e, "set", helper.updates, now)
          /\ nextId' = IF Len(syncQueue') > Len(syncQueue) THEN nextId + 1 ELSE nextId
          /\ scheduleSyncPush
  /\ UNCHANGED <<extVars, local, remote, now, online, remoteOk, drains, sentLog, syncStatus,
                 listening, origQueue, origRemote, prevQueue, coalesceRuns, lastCoalesced>>

\* the amounts of the increments: on this device and on another device
LocalDelta == 5
RemoteDelta == 3

\* goals.ts 81-89 incrementGoal (the goal has no target_value, so the minimum
\* with Infinity is the sum and completed stays false), then updateGoal 55-61:
\* the new absolute value is written as an update
IncrementWrite(e, amount) ==
  /\ helper.pc = "idle"
  /\ local[e].present /\ ~local[e].deleted
  /\ nextId <= MaxQueue
  /\ hist.localInc < MaxIncrements * amount
  /\ LET newValue == local[e].vals["current_value"] + amount
         updates == [EmptyObj EXCEPT !["current_value"] = Some(newValue)]
     IN /\ local' = [local EXCEPT ![e] = UpdatedLocal(local[e], updates, now)]
        /\ helper' = [op |-> "update", e |-> e, updates |-> updates, pc |-> "queue"]
  /\ hist' = [hist EXCEPT !.localInc = @ + amount]
  /\ UNCHANGED <<remote, syncQueue, nextId, now, online, remoteOk, syncTimeout, timers,
                 drains, sentLog, syncStatus, listening, origQueue, origRemote,
                 prevQueue, coalesceRuns, lastCoalesced, pull, statusStore, boot,
                 resolved, conflictHistory, realtime, network>>

\* another device, in step with the remote, increments and pushes its value
RemoteIncrement(e, amount) ==
  /\ remote[e].present /\ ~remote[e].deleted
  /\ remote[e].updated_at < now
  /\ hist.remoteInc < MaxIncrements * amount
  /\ remote' = [remote EXCEPT ![e].vals["current_value"] = @ + amount,
                              ![e].updated_at = now]
  /\ hist' = [hist EXCEPT !.remoteInc = @ + amount]
  /\ UNCHANGED <<local, syncQueue, nextId, now, online, remoteOk, syncTimeout, timers,
                 drains, sentLog, syncStatus, listening, helper, origQueue, origRemote,
                 prevQueue, coalesceRuns, lastCoalesced, pull, statusStore, boot,
                 resolved, conflictHistory, realtime, network>>

\* goals.ts 73-74 deleteGoal: await db.goals.delete(id)
DeleteGoalWrite(e) ==
  /\ helper.pc = "idle"
  /\ TableOf(e) = "goals"
  /\ local[e].present
  /\ nextId <= MaxQueue
  /\ local' = [local EXCEPT ![e] = NoRow]
  /\ helper' = [op |-> "delete", e |-> e, updates |-> EmptyObj, pc |-> "queue"]
  /\ UNCHANGED <<extVars, remote, syncQueue, nextId, now, online, remoteOk, syncTimeout, timers,
                 drains, sentLog, syncStatus, listening, origQueue, origRemote,
                 prevQueue, coalesceRuns, lastCoalesced>>

\* goals.ts 76-79 deleteGoal: queueSync('goals', 'delete', id, {}), scheduleSyncPush
DeleteGoalQueue ==
  /\ helper.pc = "queue" /\ helper.op = "delete"
  /\ helper' = IdleHelper
  /\ syncQueue' = queueSync(syncQueue, nextId, helper.e, "delete", EmptyObj, now)
  /\ nextId' = nextId + 1
  /\ scheduleSyncPush
  /\ UNCHANGED <<extVars, local, remote, now, online, remoteOk, drains, sentLog, syncStatus,
                 listening, origQueue, origRemote, prevQueue, coalesceRuns, lastCoalesced>>

\* the process is killed: what lives in memory is lost, IndexedDB stays
Crash ==
  /\ helper.pc # "idle" \/ timers # {} \/ InFlight # {}
  /\ helper' = IdleHelper
  /\ timers' = {}
  /\ syncTimeout' = Undefined
  /\ drains' = [d \in DrainSlots |-> IdleDrain]
  /\ listening' = FALSE
  /\ syncStatus' = InitSyncState
  /\ UNCHANGED <<extVars, local, remote, syncQueue, nextId, now, online, remoteOk, sentLog,
                 origQueue, origRemote, prevQueue, coalesceRuns, lastCoalesced>>

(***************************************************************************)
(* engine.ts: the pull (fetchGoalLists) and its merge                      *)
(***************************************************************************)
\* the rows of the goals table
GoalEntities == {e \in Entities : TableOf(e) = "goals"}

NoRows == [e \in Entities |-> NoRow]

IdlePull == [pc |-> "idle", remoteItems |-> NoRows, pendingItems |-> {}, merged |-> NoRows,
             stale |-> {}]

\* queue.ts (earliest version) getPendingItemsByEntityId: the entities that
\* have an outbox row
PendingEntityIds(queue) == {queue[i].entityId : i \in 1..Len(queue)}

\* queue.ts (earliest version) removeSyncItemsForEntity, for a set of entities
removeSyncItemsForEntity(queue, es) ==
  SelectSeq(queue, LAMBDA item : item.entityId \notin es)

\* engine.ts 679-682
isLocalNewer(localRow, remoteRow) ==
  IF ~localRow.present THEN FALSE ELSE localRow.updated_at > remoteRow.updated_at

\* engine.ts 699-724, one remote row: TRUE when the remote row is taken
RemoteRowTaken(localRow, remoteRow, hasPending) ==
  IF localRow.present /\ hasPending
  THEN remoteRow.updated_at > localRow.updated_at
  ELSE ~isLocalNewer(localRow, remoteRow)

\* engine.ts 687-736 mergeByTimestamp: the merged rows
mergeByTimestamp(localItems, remoteItems, pendingIds) ==
  [e \in Entities |->
     IF e \notin GoalEntities THEN NoRow
     ELSE IF remoteItems[e].present
          THEN IF RemoteRowTaken(localItems[e], remoteItems[e], e \in pendingIds)
               THEN remoteItems[e] ELSE localItems[e]
          ELSE localItems[e]]

\* engine.ts 708-713 with every pending entity taken as stale
StaleEntityIds_AllPending(localItems, remoteItems, pendingIds) ==
  {e \in GoalEntities : remoteItems[e].present /\ localItems[e].present /\ e \in pendingIds}

\* engine.ts 708-713: the entities whose pending rows are stale
StaleEntityIds(localItems, remoteItems, pendingIds) ==
  {e \in GoalEntities :
     /\ remoteItems[e].present /\ localItems[e].present /\ e \in pendingIds
     /\ remoteItems[e].updated_at > localItems[e].updated_at}

\* engine.ts 782-822 run without interruption: the cache and the outbox after
\* one fetchGoalLists against the remote rows rem
PullResult(loc, rem, queue) ==
  LET pendingIds == PendingEntityIds(queue)
      merged == mergeByTimestamp(loc, rem, pendingIds)
  IN [local |-> [e \in Entities |-> IF e \in GoalEntities THEN merged[e] ELSE loc[e]],
      queue |-> removeSyncItemsForEntity(queue, StaleEntityIds(loc, rem, pendingIds))]

\* engine.ts 768-787: online, await supabase.from('goal_lists').select
PullFetch ==
  /\ pull.pc = "idle"
  /\ online /\ remoteOk
  /\ pull' = [IdlePull EXCEPT !.pc = "merge", !.remoteItems = remote]
  /\ UNCHANGED <<local, remote, syncQueue, nextId, now, online, remoteOk, syncTimeout,
                 timers, drains, sentLog, syncStatus, listening, helper, origQueue,
                 origRemote, prevQueue, coalesceRuns, lastCoalesced, statusStore,
                 boot, resolved, conflictHistory, realtime, network, hist>>

\* engine.ts 789-807: read the pending rows and the local tables, merge
PullMerge ==
  /\ pull.pc = "merge"
  /\ pull' = [pull EXCEPT
        !.pc = "commit",
        !.pendingItems = PendingEntityIds(syncQueue),
        !.merged = mergeByTimestamp(local, pull.remoteItems, PendingEntityIds(syncQueue)),
        !.stale = StaleEntityIds(local, pull.remoteItems, PendingEntityIds(syncQueue))]
  /\ UNCHANGED <<local, remote, syncQueue, nextId, now, online, remoteOk, syncTimeout,
                 timers, drains, sentLog, syncStatus, listening, helper, origQueue,
                 origRemote, prevQueue, coalesceRuns, lastCoalesced, statusStore,
                 boot, resolved, conflictHistory, realtime, network, hist>>

\* engine.ts 809-822: discardStaleSyncs, then clear the tables and bulkPut
PullCommit ==
  /\ pull.pc = "commit"
  /\ syncQueue' = removeSyncItemsForEntity(syncQueue, pull.stale)
  /\ local' = [e \in Entities |-> IF e \in GoalEntities THEN pull.merged[e] ELSE local[e]]
  /\ pull' = IdlePull
  /\ UNCHANGED <<remote, nextId, now, online, remoteOk, syncTimeout, timers, drains,
                 sentLog, syncStatus, listening, helper, origQueue, origRemote,
                 prevQueue, coalesceRuns, lastCoalesced, statusStore, boot, resolved,
                 conflictHistory, realtime, network, hist>>

\* another device pushes an update of field f: engine.ts 619-622 run there
RemoteUpdate(e, f, v) ==
  /\ remote[e].present /\ ~remote[e].deleted
  /\ remote[e].updated_at < now
  /\ remote' = [remote EXCEPT ![e].vals[f] = v, ![e].updated_at = now]
  /\ UNCHANGED <<extVars, local, syncQueue, nextId, now, online, remoteOk, syncTimeout,
                 timers, drains, sentLog, syncStatus, listening, helper, origQueue,
                 origRemote, prevQueue, coalesceRuns, lastCoalesced>>

\* another device pushes a delete: the tombstone of operationToMutation
RemoteDelete(e) ==
  /\ remote[e].present /\ ~remote[e].deleted
  /\ remote[e].updated_at < now
  /\ remote' = [remote EXCEPT ![e].deleted = TRUE, ![e].updated_at = now]
  /\ UNCHANGED <<extVars, local, syncQueue, nextId, now, online, remoteOk, syncTimeout,
                 timers, drains, sentLog, syncStatus, listening, helper, origQueue,
                 origRemote, prevQueue, coalesceRuns, lastCoalesced>>

(***************************************************************************)
(* utils/dates.ts: the sync status store with its minimum display time     *)
(***************************************************************************)
SyncStatuses == {"idle", "syncing", "offline", "error"}

\* clock granularity around the status store: a fifth of the minimum
StatusTickMs == MIN_SYNCING_TIME \div 5

\* dates.ts 90-102: the published state and the closure variables
InitStatusStore ==
  [status |-> "idle", currentStatus |-> "idle", syncingStartTime |-> Undefined,
   pendingStatusChange |-> Undefined]

\* history of the status store: the last status asked for and when, when the
\* published status last became 'syncing' and when it last left it; the
\* increments made on this device and on another one; the setTimeout
\* callbacks of the status store that were not cleared and have not run, the
\* number of calls of the store, and whether a call has replaced a delayed
\* change by a different status
InitHist == [requested |-> "idle", requestedAt |-> 0, syncingSince |-> 0, leftAt |-> 0,
             localInc |-> 0, remoteInc |-> 0, statusTimers |-> {}, statusCalls |-> 0,
             superseded |-> FALSE]

\* dates.ts 133-136, 140-142, 145-146: the status is published
Published(st, status) ==
  [st EXCEPT !.currentStatus = status, !.status = status]

\* dates.ts 125-126: the time the 'syncing' state still has to be shown
Remaining_NoMinimum(elapsed) == 0 - elapsed

Remaining(elapsed) == MIN_SYNCING_TIME - elapsed

\* dates.ts 106-148 setStatus at time t
setStatusDebounced(st, status, t) ==
  IF status = st.currentStatus /\ status # "syncing" THEN st
  ELSE LET cleared == [st EXCEPT !.pendingStatusChange = Undefined] IN
       IF status = "syncing"
       THEN Published([cleared EXCEPT !.syncingStartTime = Some(t)], status)
       ELSE IF cleared.syncingStartTime # Undefined
            THEN LET remaining == Remaining(t - cleared.syncingStartTime[1]) IN
                 IF remaining > 0
                 THEN [cleared EXCEPT !.pendingStatusChange =
                         Some([status |-> status, timeout |-> t + remaining])]
                 ELSE Published([cleared EXCEPT !.syncingStartTime = Undefined], status)
            ELSE Published(cleared, status)

\* history kept next to a step of the status store
HistAfterStatus(h, st, st2, t) ==
  [h EXCEPT !.syncingSince = IF st.status # "syncing" /\ st2.status = "syncing"
                             THEN t ELSE @,
            !.leftAt = IF st.status = "syncing" /\ st2.status # "syncing" THEN t ELSE @]

\* a caller (the engine) asks for a status
SetStatus(status) ==
  /\ statusStore' = setStatusDebounced(statusStore, status, now)
  /\ hist' = [HistAfterStatus(hist, statusStore, statusStore', now) EXCEPT
                !.requested = status, !.requestedAt = now]
  /\ UNCHANGED <<local, remote, syncQueue, nextId, now, online, remoteOk, syncTimeout,
                 timers, drains, sentLog, syncStatus, listening, helper, origQueue,
                 origRemote, prevQueue, coalesceRuns, lastCoalesced, pull, boot,
                 resolved, conflictHistory, realtime, network>>

\* dates.ts 132-137: the setTimeout callback of the delayed change
StatusTimeout ==
  /\ statusStore.pendingStatusChange # Undefined
  /\ statusStore.pendingStatusChange[1].timeout <= now
  /\ statusStore' = Published([statusStore EXCEPT !.syncingStartTime = Undefined,
                                                  !.pendingStatusChange = Undefined],
                              statusStore.pendingStatusChange[1].status)
  /\ hist' = HistAfterStatus(hist, statusStore, statusStore', now)
  /\ UNCHANGED <<local, remote, syncQueue, nextId, now, online, remoteOk, syncTimeout,
                 timers, drains, sentLog, syncStatus, listening, helper, origQueue,
                 origRemote, prevQueue, coalesceRuns, lastCoalesced, pull, boot,
                 resolved, conflictHistory, realtime, network>>

\* the clock advances by StatusTickMs; a due timeout runs before time moves on
TickStatus ==
  /\ now < StartMs + MaxStatusTicks * StatusTickMs
  /\ statusStore.pendingStatusChange # Undefined =>
       statusStore.pendingStatusChange[1].timeout > now
  /\ now' = now + StatusTickMs
  /\ UNCHANGED <<extVars, local, remote, syncQueue, nextId, online, remoteOk,
                 syncTimeout, timers, drains, sentLog, syncStatus, listening, helper,
                 origQueue, origRemote, prevQueue, coalesceRuns, lastCoalesced>>

(***************************************************************************)
(* routes/+layout.ts: the app load and the pull cursor                     *)
(***************************************************************************)
\* localStorage when the app has never synced: lastSyncTimestamp (cursor),
\* the value a load last removed (removed, history), and the position of load
InitBoot == [cursor |-> Undefined, removed |-> Undefined, pc |-> "idle"]

\* +layout.ts 42: db.goalLists.count(); the cached lists are the rows of
\* GoalEntities
LocalListCount(loc) == Cardinality({e \in GoalEntities : loc[e].present})

\* +layout.ts 43
needsFullSync_AlsoOffline(hasInitialized, localCount, onLine) ==
  ~hasInitialized \/ (hasInitialized /\ localCount = 0)

needsFullSync(hasInitialized, localCount, onLine) ==
  ~hasInitialized \/ (hasInitialized /\ localCount = 0 /\ onLine)

\* +layout.ts 38-55 load, up to the await of fullSync or performSync
AppLoad ==
  /\ boot.pc = "idle"
  /\ LET hasInitialized == boot.cursor # Undefined
         localCount == LocalListCount(local)
     IN IF needsFullSync(hasInitialized, localCount, online)
        THEN boot' = [boot EXCEPT
                        !.cursor = IF hasInitialized /\ localCount = 0
                                   THEN Undefined ELSE @,
                        !.removed = IF hasInitialized /\ localCount = 0
                                    THEN boot.cursor ELSE @,
                        !.pc = "fullSync"]
        ELSE boot' = [boot EXCEPT !.pc = "performSync"]
  /\ UNCHANGED <<local, remote, syncQueue, nextId, now, online, remoteOk, syncTimeout,
                 timers, drains, sentLog, syncStatus, listening, helper, origQueue,
                 origRemote, prevQueue, coalesceRuns, lastCoalesced, pull, statusStore,
                 resolved, conflictHistory, realtime, network, hist>>

\* the rows a pull observes: those with updated_at >= cursor
ObservedRows(rem, cursor) ==
  {e \in Entities : rem[e].present /\ (cursor # Undefined => rem[e].updated_at >= cursor[1])}

\* the cursor after a pull: the greatest observed updated_at
AdvancedCursor(rem, cursor) ==
  IF ObservedRows(rem, cursor) = {} THEN cursor
  ELSE Some(CHOOSE t \in {rem[e].updated_at : e \in ObservedRows(rem, cursor)} :
              \A e \in ObservedRows(rem, cursor) : rem[e].updated_at <= t)

\* the cache after a pull: an observed row replaces an absent or older one
PulledRows(loc, rem, cursor) ==
  [e \in Entities |->
     IF e \in ObservedRows(rem, cursor) /\ ~isLocalNewer(loc[e], rem[e])
     THEN rem[e] ELSE loc[e]]

\* fullSync or performSync, awaited by load: the pull reconcile; offline or
\* on an error nothing is written
LoadSync ==
  /\ boot.pc \in {"fullSync", "performSync"}
  /\ IF online /\ remoteOk
     THEN /\ local' = PulledRows(local, remote, boot.cursor)
          /\ boot' = [boot EXCEPT
                        !.cursor = AdvancedCursor(remote, boot.cursor),
                        !.pc = "idle"]
     ELSE /\ boot' = [boot EXCEPT !.pc = "idle"]
          /\ UNCHANGED local
  /\ UNCHANGED <<remote, syncQueue, nextId, now, online, remoteOk, syncTimeout,
                 timers, drains, sentLog, syncStatus, listening, helper, origQueue,
                 origRemote, prevQueue, coalesceRuns, lastCoalesced, pull, statusStore,
                 resolved, conflictHistory, realtime, network, hist>>

\* the browser clears IndexedDB (+layout.ts 40-41)
ClearCache ==
  /\ boot.pc = "idle"
  /\ \E e \in Entities : local[e].present
  /\ local' = NoRows
  /\ UNCHANGED <<extVars, remote, syncQueue, nextId, now, online, remoteOk, syncTimeout,
                 timers, drains, sentLog, syncStatus, listening, helper, origQueue,
                 origRemote, prevQueue, coalesceRuns, lastCoalesced>>

(***************************************************************************)
(* Realtime ingress (sync/realtime.ts): the handler of an incoming event   *)
(***************************************************************************)
\* no entity marked, no event in flight; lastOutcome and lastRow are the
\* history of what the handler did with the last event and the row it carried
InitRealtime ==
  [recentlyModified |-> [e \in Entities |-> Undefined], events |-> <<>>,
   lastOutcome |-> "none", lastRow |-> NoRow]

\* step 1: the row was locally written within the last 2 seconds
wasRecentlyModified_Never(marks, e, t) == FALSE

wasRecentlyModified(marks, e, t) ==
  marks[e] # Undefined /\ t - marks[e][1] < ECHO_WINDOW_MS

\* the fields of entity e that have a pending outbox operation
PendingFields(queue, e) ==
  {f \in Fields : \E i \in 1..Len(queue) :
     /\ queue[i].entityId = e
     /\ \/ queue[i].field = Some(f)
        \/ queue[i].value.tag = "object" /\ queue[i].value.obj[f] # Undefined}

FieldOrder == <<"current_value", "name">>

\* the resolver, tiers 2 and 3 for one field: "local" or "remote"
FieldWinner(localRow, remoteRow, pendingFields, f) ==
  IF f \in pendingFields THEN "local"
  ELSE IF remoteRow.updated_at > localRow.updated_at THEN "remote" ELSE "local"

\* the resolver: the merged row
resolveConflicts(localRow, remoteRow, pendingFields) ==
  [present |-> TRUE,
   deleted |-> localRow.deleted \/ remoteRow.deleted,
   updated_at |-> IF remoteRow.updated_at > localRow.updated_at
                  THEN remoteRow.updated_at ELSE localRow.updated_at,
   vals |-> [f \in Fields |->
               IF FieldWinner(localRow, remoteRow, pendingFields, f) = "local"
               THEN localRow.vals[f] ELSE remoteRow.vals[f]]]

\* the resolutions of the differing fields, as conflict_history entries
Resolutions(e, localRow, remoteRow, pendingFields) ==
  LET differing == SelectSeq(FieldOrder,
                             LAMBDA f : localRow.vals[f] # remoteRow.vals[f])
  IN [i \in 1..Len(differing) |->
        [entityId |-> e, field |-> differing[i],
         winner |-> FieldWinner(localRow, remoteRow, pendingFields, differing[i])]]

\* conflict_history is a capped log
Capped(log) ==
  IF Len(log) > MaxHistory THEN SubSeq(log, Len(log) - MaxHistory + 1, Len(log)) ELSE log

\* the remote emits an event carrying the row of e
RemoteEmit(e) ==
  /\ remote[e].present
  /\ Len(realtime.events) < MaxEvents
  /\ realtime' = [realtime EXCEPT !.events = Append(@, [entityId |-> e, row |-> remote[e]])]
  /\ UNCHANGED <<local, remote, syncQueue, nextId, now, online, remoteOk, syncTimeout,
                 timers, drains, sentLog, syncStatus, listening, helper, origQueue,
                 origRemote, prevQueue, coalesceRuns, lastCoalesced, pull, statusStore,
                 boot, resolved, conflictHistory, network, hist>>

\* the handler of one event, steps 1 to 5
RealtimeHandle ==
  /\ realtime.events # <<>>
  /\ LET ev == Head(realtime.events)
         e == ev.entityId
         pendingFields == PendingFields(syncQueue, e)
     IN IF wasRecentlyModified(realtime.recentlyModified, e, now)
        THEN /\ realtime' = [realtime EXCEPT !.events = Tail(@), !.lastOutcome = "dropped",
                                          !.lastRow = ev.row]
             /\ UNCHANGED <<local, conflictHistory>>
        ELSE IF local[e].present /\ e \in PendingEntityIds(syncQueue)
        THEN /\ local' = [local EXCEPT ![e] = resolveConflicts(local[e], ev.row, pendingFields)]
             /\ conflictHistory' =
                  Capped(conflictHistory \o Resolutions(e, local[e], ev.row, pendingFields))
             /\ realtime' = [realtime EXCEPT !.events = Tail(@), !.lastOutcome = "merged",
                                          !.lastRow = ev.row]
        ELSE /\ local' = [local EXCEPT ![e] = ev.row]
             /\ realtime' = [realtime EXCEPT !.events = Tail(@), !.lastOutcome = "put",
                                          !.lastRow = ev.row]
             /\ UNCHANGED conflictHistory
  /\ UNCHANGED <<remote, syncQueue, nextId, now, online, remoteOk, syncTimeout,
                 timers, drains, sentLog, syncStatus, listening, helper, origQueue,
                 origRemote, prevQueue, coalesceRuns, lastCoalesced, pull, statusStore,
                 boot, resolved, network, hist>>

\* updateGoal (goals.ts 55-61) with the mark of the local write
MarkedUpdateWrite(e, updates) ==
  /\ helper.pc = "idle"
  /\ local[e].present /\ ~local[e].deleted
  /\ nextId <= MaxQueue
  /\ local' = [local EXCEPT ![e] = UpdatedLocal(local[e], updates, now)]
  /\ helper' = [op |-> "update", e |-> e, updates |-> updates, pc |-> "queue"]
  /\ realtime' = [realtime EXCEPT !.recentlyModified[e] = Some(now)]
  /\ UNCHANGED <<remote, syncQueue, nextId, now, online, remoteOk, syncTimeout, timers,
                 drains, sentLog, syncStatus, listening, origQueue, origRemote,
                 prevQueue, coalesceRuns, lastCoalesced, pull, statusStore, boot,
                 resolved, conflictHistory, network, hist>>

(***************************************************************************)
(* stores/network.ts: the network store                                    *)
(***************************************************************************)
\* network.ts 11-15 and 27-31 with navigator.onLine true; visible is the
\* document's visibilityState, pending the reconnect timeouts not yet run;
\* episode and scheduled are history: the store has observed offline, and
\* the reconnect timeouts set since it last did
InitNetwork ==
  [currentValue |-> TRUE, wasOffline |-> FALSE, visible |-> TRUE, pending |-> 0,
   episode |-> FALSE, scheduled |-> 0]

\* network.ts 17-22
setIfChanged(net, value) == [net EXCEPT !.currentValue = value]

\* network.ts 56-67 and 78-89: the reconnect is scheduled
ReconnectScheduled(net) ==
  [net EXCEPT !.wasOffline = FALSE, !.pending = @ + 1, !.scheduled = @ + 1]

\* history: the store observes offline, an offline episode begins
ObservedOffline(net) == [net EXCEPT !.episode = TRUE, !.scheduled = 0]

\* network.ts 34-49: the platform goes offline and the event is delivered
OfflineEvent ==
  /\ online
  /\ online' = FALSE
  /\ network' = ObservedOffline(setIfChanged([network EXCEPT !.wasOffline = TRUE], FALSE))
  /\ UNCHANGED <<local, remote, syncQueue, nextId, now, remoteOk, syncTimeout, timers,
                 drains, sentLog, syncStatus, listening, helper, origQueue, origRemote,
                 prevQueue, coalesceRuns, lastCoalesced, pull, statusStore, boot,
                 resolved, conflictHistory, realtime, hist>>

\* network.ts 52-68: the platform comes online and the event is delivered
OnlineEvent ==
  /\ ~online
  /\ network.pending < MaxReconnects
  /\ online' = TRUE
  /\ network' = IF network.wasOffline
                THEN ReconnectScheduled(setIfChanged(network, TRUE))
                ELSE setIfChanged(network, TRUE)
  /\ UNCHANGED <<local, remote, syncQueue, nextId, now, remoteOk, syncTimeout, timers,
                 drains, sentLog, syncStatus, listening, helper, origQueue, origRemote,
                 prevQueue, coalesceRuns, lastCoalesced, pull, statusStore, boot,
                 resolved, conflictHistory, realtime, hist>>

\* network.ts 71-94: visibilitychange
VisibilityChange ==
  /\ network.pending < MaxReconnects
  /\ LET shown == [network EXCEPT !.visible = ~network.visible] IN
       IF shown.visible
       THEN LET nowOnline == online
                updated == setIfChanged(shown, nowOnline)
            IN network' = IF nowOnline /\ updated.wasOffline
                          THEN ReconnectScheduled(updated)
                          ELSE IF ~nowOnline THEN ObservedOffline(updated) ELSE updated
       ELSE network' = IF ~online
                       THEN ObservedOffline([shown EXCEPT !.wasOffline = TRUE])
                       ELSE [shown EXCEPT !.wasOffline = FALSE]
  /\ UNCHANGED <<local, remote, syncQueue, nextId, now, online, remoteOk, syncTimeout,
                 timers, drains, sentLog, syncStatus, listening, helper, origQueue,
                 origRemote, prevQueue, coalesceRuns, lastCoalesced, pull, statusStore,
                 boot, resolved, conflictHistory, realtime, hist>>

\* network.ts 58-66, 80-88: the setTimeout callback runs the callbacks
ReconnectTimeout ==
  /\ network.pending > 0
  /\ network' = [network EXCEPT !.pending = @ - 1]
  /\ UNCHANGED <<local, remote, syncQueue, nextId, now, online, remoteOk, syncTimeout,
                 timers, drains, sentLog, syncStatus, listening, helper, origQueue,
                 origRemote, prevQueue, coalesceRuns, lastCoalesced, pull, statusStore,
                 boot, resolved, conflictHistory, realtime, hist>>

(***************************************************************************)
(* Specification of the write helpers: the device is offline, the helpers  *)
(* run, the debounce timer fires and the process may be killed.            *)
(***************************************************************************)
BaseRows == [e \in Entities |-> IF e = "g1" THEN Row(ZeroVals, 0) ELSE NoRow]

InitVolatile ==
  /\ syncTimeout = Undefined
  /\ timers = {}
  /\ drains = [d \in DrainSlots |-> IdleDrain]
  /\ sentLog = {}
  /\ syncStatus = InitSyncState
  /\ listening = FALSE
  /\ helper = IdleHelper
  /\ pull = IdlePull
  /\ statusStore = InitStatusStore
  /\ boot = InitBoot
  /\ resolved = Undefined
  /\ conflictHistory = <<>>
  /\ realtime = InitRealtime /\ network = InitNetwork
  /\ hist = InitHist

InitWrite ==
  /\ local = BaseRows
  /\ remote = BaseRows
  /\ syncQueue = <<>>
  /\ nextId = 1
  /\ now = StartMs
  /\ online = FALSE
  /\ remoteOk = TRUE
  /\ InitVolatile
  /\ origQueue = <<>>
  /\ origRemote = BaseRows
  /\ prevQueue = <<>>
  /\ coalesceRuns = 0
  /\ lastCoalesced = 0

NextWrite ==
  \/ \E e \in Entities : CreateDailyTask(e)
  \/ \E e \in Entities : DeleteDailyTask(e)
  \/ \E e \in Entities, u \in UpdateChoices : UpdateWrite(e, u)
  \/ UpdateQueue
  \/ \E e \in Entities : DeleteGoalWrite(e)
  \/ DeleteGoalQueue
  \/ \E d \in DrainSlots : TimerFire(d)
  \/ Crash
  \/ Tick

SpecWrite == InitWrite /\ [][NextWrite]_vars

\* the local row of e differs from the row last taken from the remote
LocallyWritten(e) == local[e] # BaseRows[e]

\* the outbox holds an operation for e
HasOutboxOp(e) == \E i \in 1..Len(syncQueue) : syncQueue[i].entityId = e

\* C1: whenever no write helper is in flight (also after the process was
\* killed inside one), every locally written entity has an outbox operation
\* and every outbox operation belongs to a locally written entity.
C1_WriteAndOutboxCommitTogether ==
  helper.pc = "idle" =>
    \A e \in Entities : LocallyWritten(e) <=> HasOutboxOp(e)

(***************************************************************************)
(* Specification of the compactor: an outbox of up to MaxOps operations,   *)
(* coalescePendingOps, then one drain against a remote that accepts.       *)
(***************************************************************************)
Shape(e, type, field, value) == [e |-> e, type |-> type, field |-> field, value |-> value]

\* the operations the queue helpers of queue.ts 176-253 enqueue
OpShapes ==
  {Shape("g1", "create", Undefined, ObjValue([f \in Fields |-> Some(0)])),
   Shape("g1", "set", Some("current_value"), NumValue(1)),
   Shape("g1", "set", Some("current_value"), NumValue(2)),
   Shape("g1", "set", Some("name"), NumValue(1)),
   Shape("g1", "set", Undefined, ObjValue([f \in Fields |-> Some(2)])),
   Shape("g1", "increment", Some("current_value"), NumValue(1)),
   Shape("g1", "increment", Some("current_value"), NumValue(2)),
   Shape("g1", "delete", Undefined, NoValue),
   Shape("t1", "set", Some("name"), NumValue(1)),
   Shape("t1", "delete", Undefined, NoValue)}

ShapeSeqs == UNION {[1..n -> OpShapes] : n \in 0..MaxOps}

\* ids are unique: a create is the first operation on its entity, and
\* nothing follows the delete of an entity
WellFormed(ops) ==
  \A i \in 1..Len(ops), j \in 1..Len(ops) :
     (i < j /\ ops[i].e = ops[j].e) => (ops[j].type # "create" /\ ops[i].type # "delete")

\* the outbox the enqueues leave, one every TickMs
QueueOf(ops) ==
  [i \in 1..Len(ops) |->
     SyncOperationItem(i, ops[i].e, ops[i].type, ops[i].field, ops[i].value, i * TickMs, 0)]

\* the local row after the write that enqueued the item
LocalAfterOp(row, item) ==
  CASE item.operationType # "create" /\ ~row.present -> row
    [] item.operationType = "create" ->
         Row([f \in Fields |-> IF item.value.obj[f] # Undefined
                               THEN item.value.obj[f][1] ELSE 0], item.timestamp)
    [] item.operationType = "delete" ->
         [row EXCEPT !.deleted = TRUE, !.updated_at = item.timestamp]
    [] item.operationType = "increment" ->
         [row EXCEPT !.vals[item.field[1]] = @ + item.value.num,
                     !.updated_at = item.timestamp]
    [] OTHER ->
         UpdatedLocal(row, IF item.field # Undefined
                           THEN [EmptyObj EXCEPT ![item.field[1]] = Some(item.value.num)]
                           ELSE item.value.obj, item.timestamp)

RECURSIVE LocalAfter(_, _)
LocalAfter(loc, queue) ==
  IF queue = <<>> THEN loc
  ELSE LocalAfter([loc EXCEPT ![Head(queue).entityId] = LocalAfterOp(@, Head(queue))],
                  Tail(queue))

RemoteChoices ==
  {[e \in Entities |-> IF e = "g1" THEN r ELSE Row(ZeroVals, 0)] :
     r \in {NoRow, Row(ZeroVals, 0), Row([f \in Fields |-> 3], 0)}}

InitCompact ==
  /\ \E ops \in ShapeSeqs :
       /\ WellFormed(ops)
       /\ syncQueue = QueueOf(ops)
  /\ remote \in RemoteChoices
  /\ \A i \in 1..Len(syncQueue) :
       syncQueue[i].operationType = "create" => ~remote[syncQueue[i].entityId].present
  /\ local = LocalAfter(remote, syncQueue)
  /\ nextId = Len(syncQueue) + 1
  /\ now = (Len(syncQueue) + 1) * TickMs
  /\ online = TRUE
  /\ remoteOk = TRUE
  /\ InitVolatile
  /\ origQueue = syncQueue
  /\ origRemote = remote
  /\ prevQueue = syncQueue
  /\ coalesceRuns = 0
  /\ lastCoalesced = 0

\* queue.ts 10-76 coalescePendingOps, run before the drain
CoalescePendingOps ==
  /\ coalesceRuns < MaxCoalesceRuns
  /\ InFlight = {} /\ sentLog = {}
  /\ prevQueue' = syncQueue
  /\ syncQueue' = CoalescedQueue(syncQueue)
  /\ lastCoalesced' = CoalescedCount(syncQueue)
  /\ coalesceRuns' = coalesceRuns + 1
  /\ UNCHANGED <<extVars, local, remote, nextId, now, online, remoteOk, syncTimeout, timers,
                 drains, sentLog, syncStatus, listening, helper, origQueue, origRemote>>

NextCompact ==
  \/ CoalescePendingOps
  \/ \E d \in DrainSlots : HandleSyncClick(d)
  \/ \E d \in DrainSlots : PushSend(d)
  \/ \E d \in DrainSlots : PushSettle(d)
  \/ \E d \in DrainSlots : PushFinish(d)

SpecCompact == InitCompact /\ [][NextCompact]_vars

(***************************************************************************)
(* Claims about the compactor                                              *)
(***************************************************************************)
RECURSIVE PushAll(_, _)
\* the remote after the items were pushed one after the other
PushAll(rem, items) ==
  IF items = <<>> THEN rem
  ELSE PushAll(processSyncItem(Head(items), rem, local, TRUE).remote, Tail(items))

\* what a reader of the remote row sees: its existence and field values
RowView(row) == [present |-> row.present, deleted |-> row.deleted, vals |-> row.vals]

\* the outbox was compacted and has not been drained yet
Compacted == coalesceRuns >= 1 /\ sentLog = {} /\ InFlight = {}

\* the outbox was compacted and then drained completely
CompactedAndDrained ==
  coalesceRuns >= 1 /\ sentLog # {} /\ InFlight = {} /\ syncQueue = <<>>

\* C2: pushing the compacted outbox leaves every remote row with the field
\* values that pushing the original outbox in queue order leaves.
C2_CompactionPreservesRemote ==
  CompactedAndDrained =>
    \A e \in Entities : RowView(remote[e]) = RowView(PushAll(origRemote, origQueue)[e])

\* C3: a second coalescePendingOps directly after the first changes no
\* outbox row and reports 0 coalesced operations.
C3_CoalesceIdempotent ==
  (coalesceRuns >= 2 /\ sentLog = {} /\ InFlight = {}) =>
    (syncQueue = prevQueue /\ lastCoalesced = 0)

\* C3 witness: the first run merged operations and the second run has been done
C3_Witness ==
  /\ coalesceRuns = 2 /\ sentLog = {} /\ InFlight = {}
  /\ Len(syncQueue) < Len(origQueue)
  /\ Len(syncQueue) >= 2

RECURSIVE SumDeltas(_)
SumDeltas(queue) ==
  IF queue = <<>> THEN 0 ELSE Head(queue).value.num + SumDeltas(Tail(queue))

\* the outbox is n >= 2 increments of field f of entity e
OnlyIncrements(queue, e, f) ==
  /\ Len(queue) >= 2
  /\ \A i \in 1..Len(queue) : /\ queue[i].entityId = e
                                /\ queue[i].operationType = "increment"
                                /\ queue[i].field = Some(f)

\* C4: n >= 2 pending increments of one field compact to exactly one
\* increment carrying the sum of the deltas, and the drain leaves the remote
\* field at its value before the drain plus that sum.
C4_IncrementsSummed ==
  \A e \in Entities, f \in Fields :
    OnlyIncrements(origQueue, e, f) =>
      /\ Compacted =>
           /\ Len(syncQueue) = 1
           /\ syncQueue[1].operationType = "increment"
           /\ syncQueue[1].field = Some(f)
           /\ syncQueue[1].value.num = SumDeltas(origQueue)
      /\ (CompactedAndDrained /\ origRemote[e].present) =>
           remote[e].vals[f] = origRemote[e].vals[f] + SumDeltas(origQueue)

\* the operations of the outbox on entity e
OpsOn(queue, e) == SelectSeq(queue, LAMBDA item : item.entityId = e)

\* the outbox holds create(e) ... delete(e)
CreateThenDelete(queue, e) ==
  LET ops == OpsOn(queue, e) IN
  /\ Len(ops) >= 2
  /\ ops[1].operationType = "create"
  /\ ops[Len(ops)].operationType = "delete"

\* C5: create(e), sets and increments, delete(e), all unsent: compaction
\* removes every one of them and the following drain sends nothing for e.
C5_CreateDeleteCancelled ==
  \A e \in Entities :
    CreateThenDelete(origQueue, e) =>
      /\ Compacted => OpsOn(syncQueue, e) = <<>>
      /\ coalesceRuns >= 1 =>
           \A rec \in sentLog : rec.id \notin ItemIds(OpsOn(origQueue, e))

(***************************************************************************)
(* Specification of the engine: tasks are created and deleted, every       *)
(* trigger of pushChanges may occur (debounce timer, engine start, the     *)
(* 'online' event, the manual sync), the remote accepts, time passes.      *)
(***************************************************************************)
InitEngine ==
  /\ syncQueue = <<>>
  /\ remote = BaseRows
  /\ local = BaseRows
  /\ nextId = 1
  /\ now = StartMs
  /\ online = TRUE
  /\ remoteOk = TRUE
  /\ InitVolatile
  /\ origQueue = syncQueue
  /\ origRemote = remote
  /\ prevQueue = syncQueue
  /\ coalesceRuns = 0
  /\ lastCoalesced = 0

NextEngine ==
  \/ \E e \in Entities : CreateDailyTask(e)
  \/ \E e \in Entities : DeleteDailyTask(e)
  \/ \E d \in DrainSlots : TimerFire(d)
  \/ \E d \in DrainSlots : StartSyncEngine(d)
  \/ \E d \in DrainSlots : GoOnline(d)
  \/ GoOffline
  \/ \E d \in DrainSlots : HandleSyncClick(d)
  \/ \E d \in DrainSlots : PushSend(d)
  \/ \E d \in DrainSlots : PushSettle(d)
  \/ \E d \in DrainSlots : PushFinish(d)
  \/ Tick

SpecEngine == InitEngine /\ [][NextEngine]_vars

(***************************************************************************)
(* Specification of the retries: the outbox holds a row left by an earlier *)
(* session, nothing is written, the engine is started, the device goes     *)
(* offline and online, the user asks for a sync, the remote may answer     *)
(* with errors, time passes.                                               *)
(***************************************************************************)
\* the outbox when the session starts: one set of g1.name that has failed
\* r times, the last time at time 0
PreloadedQueues ==
  {<<SyncOperationItem(1, "g1", "set", Some("name"), NumValue(1), 0, r)>> :
     r \in {0, MAX_SYNC_RETRIES - 1}}

InitRetry ==
  /\ syncQueue \in PreloadedQueues
  /\ remote = BaseRows
  /\ local = LocalAfter(BaseRows, syncQueue)
  /\ nextId = Len(syncQueue) + 1
  /\ now = StartMs
  /\ online = TRUE
  /\ remoteOk = TRUE
  /\ InitVolatile
  /\ origQueue = syncQueue
  /\ origRemote = remote
  /\ prevQueue = syncQueue
  /\ coalesceRuns = 0
  /\ lastCoalesced = 0

NextRetry ==
  \/ \E d \in DrainSlots : StartSyncEngine(d)
  \/ \E d \in DrainSlots : GoOnline(d)
  \/ GoOffline
  \/ \E d \in DrainSlots : HandleSyncClick(d)
  \/ \E d \in DrainSlots : PushSend(d)
  \/ \E d \in DrainSlots : PushSettle(d)
  \/ \E d \in DrainSlots : PushFinish(d)
  \/ RemoteToggle
  \/ Tick

SpecRetry == InitRetry /\ [][NextRetry]_vars

\* the engine is started, an awaited request or table operation completes,
\* and time passes
FairSpecRetry ==
  /\ InitRetry /\ [][NextRetry]_vars
  /\ WF_vars(Tick)
  /\ \A d \in DrainSlots :
       /\ WF_vars(StartSyncEngine(d))
       /\ WF_vars(PushSend(d))
       /\ WF_vars(PushSettle(d))
       /\ WF_vars(PushFinish(d))

(***************************************************************************)
(* Claims about retries and backoff                                        *)
(***************************************************************************)
\* C6: a request for an outbox row that has failed k >= 1 times is sent no
\* earlier than 2^(k-1) seconds after the row's last failed attempt.
C6_BackoffRespected ==
  \A rec \in sentLog :
    (rec.queued /\ rec.retries >= 1) =>
      rec.waited >= Pow2(rec.retries - 1) * 1000

\* ids of the outbox rows that have used up their retries
DeadIds(queue) == {queue[i].id : i \in {j \in 1..Len(queue) :
                                          queue[j].retries >= MAX_SYNC_RETRIES}}

\* pushChanges is called in slot d
DrainCall(d) ==
  \/ TimerFire(d)
  \/ HandleSyncClick(d)
  \/ (online /\ StartSyncEngine(d))
  \/ (listening /\ GoOnline(d))

\* C7: a row whose retries have reached 5 is gone from the outbox when the
\* next drain has run (a drain that finds nothing to send, or the end of a
\* drain that began after the row's last failure), and no request is sent
\* for such a row.
C7_DeadOpsRemovedByNextDrain ==
  /\ [][\A d \in DrainSlots :
          /\ (online' /\ DrainCall(d) /\ drains'[d].pc = "idle") =>
               DeadIds(syncQueue) \cap ItemIds(syncQueue') = {}
          /\ PushFinish(d) =>
               \A i \in 1..Len(syncQueue') :
                  ~(/\ syncQueue'[i].retries >= MAX_SYNC_RETRIES
                    /\ syncQueue'[i].timestamp < drains[d].startedAt)]_vars
  /\ [](\A rec \in sentLog : rec.queued => rec.retries < MAX_SYNC_RETRIES)

(***************************************************************************)
(* Claims about the drain                                                  *)
(***************************************************************************)
\* C8: at most one execution of pushChanges is in flight, and no attempt of
\* an outbox row is sent twice.
C8_OneDrainInFlight ==
  /\ Cardinality(InFlight) <= 1
  /\ \A r1 \in sentLog, r2 \in sentLog :
       (r1.id = r2.id /\ r1.attempt = r2.attempt) => r1 = r2

\* C9: a debounce timer set by a scheduleSyncPush that was called while a
\* drain was in flight does not start its drain before that drain has
\* finished, and at most one debounce timer is pending.
C9_TrailingDrainDoesNotOverlap ==
  /\ [][\A d \in DrainSlots :
          (TimerFire(d) /\ drains'[d].pc # "idle") =>
             \A d2 \in InFlight, h \in timers \ timers' :
                ~(drains[d2].startedAt < h - SYNC_DEBOUNCE_MS)]_vars
  /\ [](Cardinality(timers) <= 1)

\* every outbox row may be sent now: retries left and backoff elapsed
AllEligible == \A i \in 1..Len(syncQueue) : shouldRetryItem(syncQueue[i], now)

\* C10: if from some time on the device is online, the remote accepts and
\* every outbox row is eligible for an attempt, the outbox becomes empty.
C10_OutboxEventuallyEmpty ==
  <>[](online /\ remoteOk /\ AllEligible) => <>(syncQueue = <<>>)

(***************************************************************************)
(* Specification of the status store: statuses are requested at any time,  *)
(* the delayed change fires, time passes in steps of 100 ms.               *)
(***************************************************************************)
InitStatus ==
  /\ local = BaseRows
  /\ remote = BaseRows
  /\ syncQueue = <<>>
  /\ nextId = 1
  /\ now = StartMs
  /\ online = TRUE
  /\ remoteOk = TRUE
  /\ InitVolatile
  /\ origQueue = <<>>
  /\ origRemote = BaseRows
  /\ prevQueue = <<>>
  /\ coalesceRuns = 0
  /\ lastCoalesced = 0

NextStatus ==
  \/ \E status \in SyncStatuses : SetStatus(status)
  \/ StatusTimeout
  \/ TickStatus

SpecStatus == InitStatus /\ [][NextStatus]_vars

\* C17: the published status leaves 'syncing' no earlier than 500 ms after it
\* became 'syncing' and then shows the status asked for last; while another
\* status is asked for and 'syncing' is still shown, the change is due 500 ms
\* after the latest request for 'syncing' and not overdue.
C17_SyncingHeldForMinimum ==
  /\ [][(statusStore.status = "syncing" /\ statusStore'.status # "syncing") =>
          /\ now' - hist.syncingSince >= MIN_SYNCING_TIME
          /\ statusStore'.status = hist'.requested]_vars
  /\ []((statusStore.status = "syncing" /\ hist.requested # "syncing") =>
          /\ statusStore.pendingStatusChange # Undefined
          /\ statusStore.pendingStatusChange[1].status = hist.requested
          /\ statusStore.pendingStatusChange[1].timeout =
               statusStore.syncingStartTime[1] + MIN_SYNCING_TIME
          /\ now <= statusStore.pendingStatusChange[1].timeout)

\* C17 witness: 'idle' was asked for less than 500 ms after 'syncing' began
\* and was published exactly 500 ms after it began
C17_Witness ==
  /\ statusStore.status = "idle"
  /\ hist.requested = "idle"
  /\ hist.requestedAt > hist.syncingSince
  /\ hist.requestedAt - hist.syncingSince < MIN_SYNCING_TIME
  /\ hist.leftAt = hist.syncingSince + MIN_SYNCING_TIME

(***************************************************************************)
(* Specification of the pull: the goal g1 is on both sides; this device    *)
(* updates it, another device updates or deletes it on the remote, the     *)
(* lists are fetched and merged into the cache, time passes (the debounce  *)
(* timer of a write has not fired yet).                                    *)
(***************************************************************************)
RemoteValues == {3}

\* the updates made on this device: one value per field
PullUpdates == {[EmptyObj EXCEPT ![f] = Some(1)] : f \in Fields}

InitPull ==
  /\ syncQueue = <<>>
  /\ remote = BaseRows
  /\ local = BaseRows
  /\ nextId = 1
  /\ now = StartMs
  /\ online = TRUE
  /\ remoteOk = TRUE
  /\ InitVolatile
  /\ origQueue = syncQueue
  /\ origRemote = remote
  /\ prevQueue = syncQueue
  /\ coalesceRuns = 0
  /\ lastCoalesced = 0

NextPull ==
  \/ \E u \in PullUpdates : UpdateWrite("g1", u)
  \/ UpdateQueue
  \/ \E f \in Fields, v \in RemoteValues : RemoteUpdate("g1", f, v)
  \/ RemoteDelete("g1")
  \/ PullFetch
  \/ PullMerge
  \/ PullCommit
  \/ Tick

SpecPull == InitPull /\ [][NextPull]_vars

(***************************************************************************)
(* Specification of the pull next to the push: this device updates g1,     *)
(* another device deletes it on the remote, the lists are fetched and      *)
(* merged into the cache while the debounce timer pushes the outbox.       *)
(***************************************************************************)
NextPullPush ==
  \/ \E u \in PullUpdates : UpdateWrite("g1", u)
  \/ UpdateQueue
  \/ RemoteDelete("g1")
  \/ PullFetch
  \/ PullMerge
  \/ PullCommit
  \/ \E d \in DrainSlots : TimerFire(d)
  \/ \E d \in DrainSlots : PushSend(d)
  \/ \E d \in DrainSlots : PushSettle(d)
  \/ \E d \in DrainSlots : PushFinish(d)
  \/ Tick

SpecPullPush == InitPull /\ [][NextPullPush]_vars

\* the outbox rows of entity e that carry a value for field f
PendingOn(queue, e, f) ==
  {i \in 1..Len(queue) : /\ queue[i].entityId = e
                         /\ queue[i].value.tag = "object"
                         /\ queue[i].value.obj[f] # Undefined}

\* C11: when the pull writes its merged rows and the entity had, at the merge,
\* and still has a pending outbox operation on field f, the local value of f
\* is the same after the write and the outbox is the same.
C11_PendingOpShieldsField ==
  [][\A f \in Fields :
       (/\ pull.pc = "commit" /\ pull'.pc = "idle"
        /\ "g1" \in pull.pendingItems
        /\ PendingOn(syncQueue, "g1", f) # {}
        /\ local["g1"].present)
       => /\ local'["g1"].present
          /\ local'["g1"].vals[f] = local["g1"].vals[f]
          /\ syncQueue' = syncQueue]_vars

\* C12: when the pull writes its merged rows for a goal that has a pending set
\* of name and whose fetched remote row is deleted, the local row afterwards
\* is deleted and has the pending name.
C12_DeleteWinsKeepsName ==
  [][(/\ pull.pc = "commit" /\ pull'.pc = "idle"
      /\ "g1" \in pull.pendingItems
      /\ PendingOn(syncQueue, "g1", "name") # {}
      /\ local["g1"].present
      /\ pull.remoteItems["g1"].present /\ pull.remoteItems["g1"].deleted)
     => /\ local'["g1"].present
        /\ local'["g1"].deleted
        /\ local'["g1"].vals["name"] = local["g1"].vals["name"]]_vars

\* C13: a local row that is deleted stays deleted (the specification has no
\* create of g1 and no local delete: a deleted local row was taken from the
\* remote).
C13_NoResurrection ==
  [][(local["g1"].present /\ local["g1"].deleted)
     => (local'["g1"].present /\ local'["g1"].deleted)]_vars

\* C20: the updated_at of the local row of an id never decreases.
C20_UpdatedAtMonotone ==
  [][\A e \in Entities :
       (local[e].present /\ local'[e].present)
       => local'[e].updated_at >= local[e].updated_at]_vars

(***************************************************************************)
(* Specification of the resolver on two devices: each device holds its own *)
(* version of g1 as the local row and meets the other one as the remote    *)
(* row, in resolveConflict and in the merge of a pull with an empty outbox. *)
(***************************************************************************)
\* the device ids, in lexicographic order
DeviceIds == <<"device-a", "device-b">>

\* the versions of g1 a device can hold
RowVersions ==
  {Row([f \in Fields |-> IF f = "name" THEN n ELSE c], ts) :
     n \in {1, 2}, c \in {1, 2}, ts \in {StartMs, StartMs + TickMs}}

\* utils conflict resolution (part_015 8-10)
isRemoteNewer(localRow, remoteRow) == remoteRow.updated_at > localRow.updated_at

\* part_015 17-19
resolveConflict(localRow, remoteRow) ==
  IF isRemoteNewer(localRow, remoteRow) THEN remoteRow ELSE localRow

\* engine.ts 687-736 for the one row g1 and no pending rows
MergedRow(localRow, remoteRow) ==
  mergeByTimestamp([NoRows EXCEPT !["g1"] = localRow],
                   [NoRows EXCEPT !["g1"] = remoteRow], {})["g1"]

InitResolve ==
  /\ local = BaseRows
  /\ remote = BaseRows
  /\ syncQueue = <<>>
  /\ nextId = 1
  /\ now = StartMs
  /\ online = TRUE
  /\ remoteOk = TRUE
  /\ pull = IdlePull /\ statusStore = InitStatusStore /\ boot = InitBoot
  /\ conflictHistory = <<>> /\ hist = InitHist /\ realtime = InitRealtime /\ network = InitNetwork
  /\ syncTimeout = Undefined /\ timers = {} /\ sentLog = {}
  /\ drains = [d \in DrainSlots |-> IdleDrain]
  /\ syncStatus = InitSyncState /\ listening = FALSE /\ helper = IdleHelper
  /\ origQueue = <<>>
  /\ origRemote = BaseRows
  /\ prevQueue = <<>>
  /\ coalesceRuns = 0
  /\ lastCoalesced = 0
  /\ \E a \in RowVersions, b \in RowVersions, i \in 1..2 :
       resolved = [rows |-> <<a, b>>, devices |-> <<DeviceIds[i], DeviceIds[3 - i]>>,
                   kept |-> <<Undefined, Undefined>>,
                   merged |-> <<Undefined, Undefined>>]

\* device i (1 or 2) resolves its row against the other device's row
ResolveOn(i) ==
  /\ resolved.kept[i] = Undefined
  /\ resolved' = [resolved EXCEPT
        !.kept[i] = Some(resolveConflict(resolved.rows[i], resolved.rows[3 - i]))]
  /\ UNCHANGED <<local, remote, syncQueue, nextId, now, online, remoteOk, syncTimeout,
                 timers, drains, sentLog, syncStatus, listening, helper, origQueue,
                 origRemote, prevQueue, coalesceRuns, lastCoalesced, pull, statusStore,
                 boot, conflictHistory, realtime, network, hist>>

\* device i pulls the other device's row with nothing pending
MergeOn(i) ==
  /\ resolved.merged[i] = Undefined
  /\ resolved' = [resolved EXCEPT
        !.merged[i] = Some(MergedRow(resolved.rows[i], resolved.rows[3 - i]))]
  /\ UNCHANGED <<local, remote, syncQueue, nextId, now, online, remoteOk, syncTimeout,
                 timers, drains, sentLog, syncStatus, listening, helper, origQueue,
                 origRemote, prevQueue, coalesceRuns, lastCoalesced, pull, statusStore,
                 boot, conflictHistory, realtime, network, hist>>

NextResolve ==
  \/ \E i \in 1..2 : ResolveOn(i)
  \/ \E i \in 1..2 : MergeOn(i)

SpecResolve == InitResolve /\ [][NextResolve]_vars

\* the position of the version written by the lower device_id
LowerDevice == CHOOSE i \in 1..2 : resolved.devices[i] = DeviceIds[1]

\* C14: when the two versions have the same updated_at, both devices resolve
\* to the same values, those of the version written by the device with the
\* lower device_id, in resolveConflict and
\* in the merge of a pull.
C14_TieResolvedAlikeOnBothDevices ==
  (resolved.rows[1].updated_at = resolved.rows[2].updated_at) =>
    /\ (resolved.kept[1] # Undefined /\ resolved.kept[2] # Undefined) =>
         /\ resolved.kept[1][1].vals = resolved.kept[2][1].vals
         /\ resolved.kept[1][1].vals = resolved.rows[LowerDevice].vals
    /\ (resolved.merged[1] # Undefined /\ resolved.merged[2] # Undefined) =>
         /\ resolved.merged[1][1].vals = resolved.merged[2][1].vals
         /\ resolved.merged[1][1].vals = resolved.rows[LowerDevice].vals

(***************************************************************************)
(* Specification of the increments: g1 is on both sides with the same      *)
(* current_value; this device is offline and increments it, another device *)
(* increments it on the remote; the engine is started, the device comes    *)
(* online, the outbox is pushed, time passes.                              *)
(***************************************************************************)
InitIncrement ==
  /\ syncQueue = <<>>
  /\ remote = BaseRows
  /\ local = BaseRows
  /\ nextId = 1
  /\ now = StartMs
  /\ online = FALSE
  /\ remoteOk = TRUE
  /\ InitVolatile
  /\ origQueue = syncQueue
  /\ origRemote = remote
  /\ prevQueue = syncQueue
  /\ coalesceRuns = 0
  /\ lastCoalesced = 0

NextIncrement ==
  \/ IncrementWrite("g1", LocalDelta)
  \/ UpdateQueue
  \/ RemoteIncrement("g1", RemoteDelta)
  \/ \E d \in DrainSlots : StartSyncEngine(d)
  \/ \E d \in DrainSlots : GoOnline(d)
  \/ \E d \in DrainSlots : TimerFire(d)
  \/ \E d \in DrainSlots : PushSend(d)
  \/ \E d \in DrainSlots : PushSettle(d)
  \/ \E d \in DrainSlots : PushFinish(d)
  \/ Tick

SpecIncrement == InitIncrement /\ [][NextIncrement]_vars

\* the outbox is empty and nothing is running
Settled ==
  /\ syncQueue = <<>>
  /\ helper.pc = "idle"
  /\ \A d \in DrainSlots : drains[d].pc = "idle"

\* C15: once the increments of this device are pushed, the remote
\* current_value is the start value plus the increments of both devices.
C15_IncrementsAddUp ==
  (Settled /\ remote["g1"].present)
  => remote["g1"].vals["current_value"] =
       BaseRows["g1"].vals["current_value"] + hist.localInc + hist.remoteInc

\* C16: the outbox row of an increment is an increment operation on the
\* field carrying the amount (the increments are the only writes of this
\* specification).
C16_IncrementQueuedAsIncrement ==
  \A i \in 1..Len(syncQueue) :
    /\ syncQueue[i].operationType = "increment"
    /\ syncQueue[i].field = Some("current_value")
    /\ syncQueue[i].value = NumValue(LocalDelta)

(***************************************************************************)
(* Specification of the app load: the app is loaded again and again within *)
(* one login session, the browser may clear the cache, another device      *)
(* updates g1 on the remote, the device goes offline and online, time      *)
(* passes.                                                                 *)
(***************************************************************************)
InitBootSpec ==
  /\ syncQueue = <<>>
  /\ remote = BaseRows
  /\ local = NoRows
  /\ nextId = 1
  /\ now = StartMs
  /\ online = TRUE
  /\ remoteOk = TRUE
  /\ InitVolatile
  /\ origQueue = syncQueue
  /\ origRemote = remote
  /\ prevQueue = syncQueue
  /\ coalesceRuns = 0
  /\ lastCoalesced = 0

NextBoot ==
  \/ AppLoad
  \/ LoadSync
  \/ ClearCache
  \/ \E f \in Fields, v \in RemoteValues : RemoteUpdate("g1", f, v)
  \/ \E d \in DrainSlots : GoOnline(d)
  \/ GoOffline
  \/ Tick

SpecBoot == InitBootSpec /\ [][NextBoot]_vars

NextRealtime ==
  \/ \E u \in PullUpdates : MarkedUpdateWrite("g1", u)
  \/ UpdateQueue
  \/ RemoteEmit("g1")
  \/ RealtimeHandle
  \/ \E d \in DrainSlots : TimerFire(d)
  \/ \E d \in DrainSlots : PushSend(d)
  \/ \E d \in DrainSlots : PushSettle(d)
  \/ \E d \in DrainSlots : PushFinish(d)
  \/ Tick

SpecRealtime == InitPull /\ [][NextRealtime]_vars

C21_OfflineDrainIsNoOp ==
  [][(/\ ~online
      /\ timers' # timers
      /\ timers' \subseteq timers)
     => /\ remote' = remote
        /\ sentLog' = sentLog
        /\ drains' = drains
        /\ syncQueue' = syncQueue
        /\ syncStatus'.status = "offline"]_vars

\* C21 witness: offline with a row in the outbox, the timer has fired, the
\* status is offline and nothing has been sent
C21_Witness ==
  /\ ~online
  /\ syncQueue # <<>>
  /\ syncTimeout # Undefined
  /\ timers = {}
  /\ syncStatus.status = "offline"
  /\ sentLog = {}

(***************************************************************************)
(* Logout (handleSignOut of the layout): stopSyncEngine, clearLocalCache,  *)
(* the cursor is removed, the status store is reset, signOut.              *)
(***************************************************************************)
\* engine.ts 1180-1188: the tables clearLocalCache clears
ClearedTables == {"goal_lists", "goals", "daily_routine_goals", "daily_goal_progress"}

clearLocalCache(loc) ==
  [e \in Entities |-> IF TableOf(e) \in ClearedTables THEN NoRow ELSE loc[e]]

HandleSignOut ==
  /\ boot.pc = "idle"
  \* stopSyncEngine, engine.ts 1169-1177
  /\ listening' = FALSE
  /\ timers' = IF syncTimeout # Undefined THEN timers \ {syncTimeout[1]} ELSE timers
  /\ syncTimeout' = Undefined
  \* clearLocalCache
  /\ local' = clearLocalCache(local)
  /\ syncQueue' = <<>>
  \* localStorage.removeItem, syncStatusStore.reset
  /\ boot' = [boot EXCEPT !.cursor = Undefined, !.pc = "loggedOut"]
  /\ syncStatus' = InitSyncState
  /\ UNCHANGED <<remote, nextId, now, online, remoteOk, drains, sentLog, helper,
                 origQueue, origRemote, prevQueue, coalesceRuns, lastCoalesced, pull,
                 statusStore, resolved, conflictHistory, realtime, network, hist>>

\* the session has a cursor from an earlier sync; g1 is on both sides
InitLogout ==
  /\ syncQueue = <<>>
  /\ remote = BaseRows
  /\ local = BaseRows
  /\ nextId = 1
  /\ now = StartMs
  /\ online = TRUE
  /\ remoteOk = TRUE
  /\ syncTimeout = Undefined /\ timers = {} /\ sentLog = {}
  /\ drains = [d \in DrainSlots |-> IdleDrain]
  /\ syncStatus = InitSyncState /\ listening = TRUE /\ helper = IdleHelper
  /\ pull = IdlePull /\ statusStore = InitStatusStore
  /\ boot = [InitBoot EXCEPT !.cursor = Some(0)]
  /\ resolved = Undefined /\ conflictHistory = <<>> /\ hist = InitHist
  /\ realtime = InitRealtime /\ network = InitNetwork
  /\ origQueue = syncQueue
  /\ origRemote = remote
  /\ prevQueue = syncQueue
  /\ coalesceRuns = 0
  /\ lastCoalesced = 0

\* while logged in the user writes and another device updates the remote;
\* what is awaited or scheduled goes on after the logout
NextLogout ==
  \/ /\ boot.pc = "idle"
     /\ \/ \E u \in PullUpdates : UpdateWrite("g1", u)
        \/ \E f \in Fields, v \in RemoteValues : RemoteUpdate("g1", f, v)
  \/ HandleSignOut
  \/ UpdateQueue
  \/ \E d \in DrainSlots : TimerFire(d)
  \/ \E d \in DrainSlots : PushSend(d)
  \/ \E d \in DrainSlots : PushSettle(d)
  \/ \E d \in DrainSlots : PushFinish(d)
  \/ Tick

SpecLogout == InitLogout /\ [][NextLogout]_vars

\* C22: after the logout the local tables and the outbox are empty, the
\* cursor is cleared, and no request of a drain goes out any more.
C22_LoggedOutStaysClean ==
  /\ [](boot.pc = "loggedOut" =>
          /\ \A e \in Entities : ~local[e].present
          /\ syncQueue = <<>>
          /\ boot.cursor = Undefined)
  /\ [][boot.pc = "loggedOut" => sentLog' = sentLog]_vars

(***************************************************************************)
(* Specification of the network store: the platform goes offline and       *)
(* online, with the event delivered or swallowed, the tab is hidden and    *)
(* shown, the reconnect timeouts run, time passes.                         *)
(***************************************************************************)
NextNetwork ==
  \/ OfflineEvent
  \/ OnlineEvent
  \/ GoOffline
  \/ \E d \in DrainSlots : GoOnline(d)
  \/ VisibilityChange
  \/ ReconnectTimeout
  \/ Tick

SpecNetwork == InitPull /\ [][NextNetwork]_vars

\* C23: when the tab becomes visible while the platform is online and the
\* store has observed offline, exactly one reconnect has been scheduled since
\* the store observed offline (by an online event or by this step).
C23_ReconnectExactlyOnce ==
  [][(/\ ~network.visible /\ network'.visible
      /\ online
      /\ network.episode)
     => network'.scheduled = 1]_vars

(***************************************************************************)
(* Claims about the pull                                                   *)
(***************************************************************************)
\* C24: from every cache, outbox and remote, a second fetchGoalLists run
\* right after a first one, against the same remote rows and with no write
\* in between, leaves the cache and the outbox as the first run left them.
C24_PullIdempotent ==
  LET first == PullResult(local, remote, syncQueue)
      second == PullResult(first.local, remote, first.queue)
  IN second = first

\* C24 witness: a pull has discarded a stale outbox row and taken the newer
\* remote row of g1; the cache is what a pull leaves
C24_Witness ==
  /\ pull.pc = "idle"
  /\ nextId > 1
  /\ syncQueue = <<>>
  /\ remote["g1"].updated_at > 0
  /\ local["g1"] = remote["g1"]
  /\ PullResult(local, remote, syncQueue).local = local

(***************************************************************************)
(* Specification of the outbox in use: single-field sets are enqueued      *)
(* while the session runs, the outbox is compacted between drains, one     *)
(* drain runs at a time, the remote may answer with errors, time passes.   *)
(***************************************************************************)
\* queue.ts 193-207 queueSetOperation, in the transaction of the local write
SetWrite(e, f, v) ==
  /\ helper.pc = "idle"
  /\ local[e].present /\ ~local[e].deleted
  /\ nextId <= MaxQueue
  /\ local' = [local EXCEPT ![e] =
                  UpdatedLocal(local[e], [EmptyObj EXCEPT ![f] = Some(v)], now)]
  /\ syncQueue' = queueSyncOperation(syncQueue, nextId, e, "set", Some(f), NumValue(v), now)
  /\ nextId' = nextId + 1
  /\ UNCHANGED <<extVars, remote, now, online, remoteOk, syncTimeout, timers, drains,
                 sentLog, syncStatus, listening, helper, origQueue, origRemote,
                 prevQueue, coalesceRuns, lastCoalesced>>

\* queue.ts 10-76 coalescePendingOps, run while no drain is in progress
CompactOutbox ==
  /\ coalesceRuns < MaxCoalesceRuns
  /\ InFlight = {}
  /\ prevQueue' = syncQueue
  /\ syncQueue' = CoalescedQueue(syncQueue)
  /\ lastCoalesced' = CoalescedCount(syncQueue)
  /\ coalesceRuns' = coalesceRuns + 1
  /\ UNCHANGED <<extVars, local, remote, nextId, now, online, remoteOk, syncTimeout, timers,
                 drains, sentLog, syncStatus, listening, helper, origQueue, origRemote>>

NextOutbox ==
  \/ \E f \in Fields, v \in {1, 2} : SetWrite("g1", f, v)
  \/ CompactOutbox
  \/ HandleSyncClick(1)
  \/ PushSend(1)
  \/ PushSettle(1)
  \/ PushFinish(1)
  \/ RemoteToggle
  \/ Tick

SpecOutbox == InitEngine /\ [][NextOutbox]_vars

(***************************************************************************)
(* Claims about the order of the outbox                                    *)
(***************************************************************************)
\* the rows of the outbox that were enqueued before row id in its group
EarlierInGroup(queue, id) ==
  {j \in 1..Len(queue) :
     /\ queue[j].id < id
     /\ queue[j].table = ItemById(queue, id).table
     /\ queue[j].entityId = ItemById(queue, id).entityId}

\* C25: within one group (table, entityId) the drain sends the operations in
\* the order of their enqueueing: when a request for a row goes out, no row of
\* its group that was enqueued before it is still waiting in the outbox, also
\* after an earlier row has failed and had its timestamp refreshed.
C25_GroupSentInSeqOrder ==
  [][\A rec \in sentLog' \ sentLog :
        rec.queued => EarlierInGroup(syncQueue, rec.id) = {}]_vars

\* the set item writes field f
WritesField(item, f) ==
  IF item.field # Undefined THEN item.field = Some(f)
  ELSE item.value.tag = "object" /\ item.value.obj[f] # Undefined

\* the value the set item writes to field f
WrittenValue(item, f) ==
  IF item.field # Undefined THEN item.value.num ELSE item.value.obj[f][1]

\* the set rows of a group that write field f
SetWriters(queue, key, f) ==
  {i \in 1..Len(queue) : /\ <<queue[i].table, queue[i].entityId>> = key
                         /\ queue[i].operationType = "set"
                         /\ WritesField(queue[i], f)}

\* the value of the writer of f that was enqueued last
LastEnqueuedValue(queue, key, f) ==
  LET i == CHOOSE k \in SetWriters(queue, key, f) :
             \A j \in SetWriters(queue, key, f) : queue[j].id <= queue[k].id
  IN WrittenValue(queue[i], f)

\* C26: when coalescePendingOps merges the sets of a group, the surviving set
\* carries, for every field, the value of the set enqueued last among those
\* that write the field, also when some of the sets have been retried.
C26_LastEnqueuedSetWins ==
  [][coalesceRuns' = coalesceRuns + 1 =>
       \A key \in MergingKeys(syncQueue), f \in Fields :
          SetWriters(syncQueue, key, f) # {} =>
            \A j \in SetWriters(syncQueue', key, f) :
               WrittenValue(syncQueue'[j], f) = LastEnqueuedValue(syncQueue, key, f)]_vars

(***************************************************************************)
(* Claims about compaction across operation types                          *)
(***************************************************************************)
\* the outbox holds create(e) followed only by sets and increments of e
CreateThenEdits(queue, e) ==
  LET ops == OpsOn(queue, e) IN
  /\ Len(ops) >= 2
  /\ ops[1].operationType = "create"
  /\ \A i \in 2..Len(ops) : ops[i].operationType \in {"set", "increment"}

RECURSIVE FoldedPayload(_, _)
\* the payload of a create after the sets and increments that follow it:
\* set fields overwritten, deltas added (to 0 when the field is absent)
FoldedPayload(payload, ops) ==
  IF ops = <<>> THEN payload
  ELSE LET it == Head(ops)
           next == IF it.operationType = "increment"
                   THEN [payload EXCEPT ![it.field[1]] =
                           Some((IF @ = Undefined THEN 0 ELSE @[1]) + it.value.num)]
                   ELSE [f \in Fields |-> IF WritesField(it, f)
                                          THEN Some(WrittenValue(it, f))
                                          ELSE payload[f]]
       IN FoldedPayload(next, Tail(ops))

\* C27: create(e) followed by sets and increments of e (no delete) compacts
\* to exactly one operation for e, a create whose payload is the initial
\* payload with the set fields overwritten and the deltas added.
C27_CreateAbsorbsEdits ==
  \A e \in Entities :
    (CreateThenEdits(origQueue, e) /\ Compacted) =>
      LET ops == OpsOn(origQueue, e)
          left == OpsOn(syncQueue, e)
      IN /\ Len(left) = 1
         /\ left[1].operationType = "create"
         /\ left[1].value = ObjValue(FoldedPayload(ops[1].value.obj, Tail(ops)))

\* the outbox is a run of single-field sets and increments of field f of
\* entity e, with at least one of each
MixedRun(queue, e, f) ==
  /\ Len(queue) >= 2
  /\ \A i \in 1..Len(queue) : /\ queue[i].entityId = e
                                /\ queue[i].field = Some(f)
                                /\ queue[i].operationType \in {"set", "increment"}
  /\ \E i \in 1..Len(queue) : queue[i].operationType = "set"
  /\ \E i \in 1..Len(queue) : queue[i].operationType = "increment"

RECURSIVE RunValue(_, _)
\* the value of the field after the run, applied in order from value v
RunValue(v, run) ==
  IF run = <<>> THEN v
  ELSE RunValue(IF Head(run).operationType = "set" THEN Head(run).value.num
                ELSE v + Head(run).value.num, Tail(run))

\* the run from its first set on
FromFirstSet(run) ==
  LET k == CHOOSE i \in 1..Len(run) :
             /\ run[i].operationType = "set"
             /\ \A j \in 1..(i - 1) : run[j].operationType # "set"
  IN SubSeq(run, k, Len(run))

\* C28: a run of sets and increments of one field compacts to a single set
\* of the value the run, applied in order, leaves: increments before a set
\* are dropped, increments after a set are added to its value.
C28_MixedRunBecomesOneSet ==
  \A e \in Entities, f \in Fields :
    (MixedRun(origQueue, e, f) /\ Compacted) =>
      /\ Len(syncQueue) = 1
      /\ syncQueue[1].operationType = "set"
      /\ WritesField(syncQueue[1], f)
      /\ WrittenValue(syncQueue[1], f) = RunValue(0, FromFirstSet(origQueue))

(***************************************************************************)
(* Specification of updates merged on enqueue: a goal is updated again and *)
(* again, queueSync merges each update into the pending one, the debounce  *)
(* timer starts the drains, the remote may answer with errors, time        *)
(* passes.                                                                 *)
(***************************************************************************)
NextMerge ==
  \/ \E u \in UpdateChoices : UpdateWrite("g1", u)
  \/ UpdateQueue
  \/ \E d \in DrainSlots : TimerFire(d)
  \/ \E d \in DrainSlots : PushSend(d)
  \/ \E d \in DrainSlots : PushSettle(d)
  \/ \E d \in DrainSlots : PushFinish(d)
  \/ RemoteToggle
  \/ Tick

SpecMerge == InitEngine /\ [][NextMerge]_vars

\* C29: an outbox row that has failed and is waiting in backoff keeps its
\* timestamp and its retry count when a newly enqueued operation is merged
\* into it, so the merge neither restarts nor shortens its wait.
C29_MergeKeepsBackoff ==
  [][\A i \in 1..Len(syncQueue), j \in 1..Len(syncQueue') :
        (/\ syncQueue'[j].id = syncQueue[i].id
         /\ syncQueue[i].retries >= 1
         /\ syncQueue'[j].value # syncQueue[i].value)
        => /\ syncQueue'[j].timestamp = syncQueue[i].timestamp
           /\ syncQueue'[j].retries = syncQueue[i].retries]_vars

(***************************************************************************)
(* Specification of the discarded push: a goal and a daily task are in the *)
(* cache and on the remote, both are updated on this device and on         *)
(* another one, the debounce timer starts the drains, time passes.         *)
(***************************************************************************)
\* a goal and a daily task, in step with the remote
SyncedRows == [e \in Entities |-> Row(ZeroVals, 0)]

InitDiscard ==
  /\ syncQueue = <<>>
  /\ remote = SyncedRows
  /\ local = SyncedRows
  /\ nextId = 1
  /\ now = StartMs
  /\ online = TRUE
  /\ remoteOk = TRUE
  /\ InitVolatile
  /\ origQueue = syncQueue
  /\ origRemote = remote
  /\ prevQueue = syncQueue
  /\ coalesceRuns = 0
  /\ lastCoalesced = 0

NextDiscard ==
  \/ \E e \in Entities, u \in PullUpdates : UpdateWrite(e, u)
  \/ UpdateQueue
  \/ \E e \in Entities : RemoteUpdate(e, "name", 3)
  \/ \E d \in DrainSlots : TimerFire(d)
  \/ \E d \in DrainSlots : PushSend(d)
  \/ \E d \in DrainSlots : PushSettle(d)
  \/ \E d \in DrainSlots : PushFinish(d)
  \/ Tick

SpecDiscard == InitDiscard /\ [][NextDiscard]_vars

\* the updated_at the update of an outbox row carries: its local basis
Basis(item) == operationToMutation(item, Undefined).updated_at

\* C30: when the request for an update goes out and the remote row is
\* strictly newer than the update's basis, nothing is written to the remote,
\* the row leaves the outbox with no retry counted, and the local row becomes
\* the remote row; when the remote row is not newer, the update is written.
C30_NewerRemoteWinsOnPush ==
  [][\A d \in DrainSlots :
       /\ (drains[d].pc = "send" /\ drains'[d].pc = "settle") =>
            LET item == drains[d].pendingItems[drains[d].i]
                e == item.entityId
            IN (item.operationType = "set" /\ remote[e].present) =>
                 IF remote[e].updated_at > Basis(item)
                 THEN /\ remote' = remote
                      /\ drains'[d].result = "discarded"
                      /\ local'[e] = remote[e]
                 ELSE /\ remote'[e].updated_at = Basis(item)
                      /\ \A f \in Fields :
                           WritesField(item, f) =>
                             remote'[e].vals[f] = WrittenValue(item, f)
       /\ (drains[d].pc = "settle" /\ drains[d].result = "discarded"
           /\ drains'[d].pc # "settle") =>
            drains[d].pendingItems[drains[d].i].id \notin ItemIds(syncQueue')]_vars

(***************************************************************************)
(* Claims about the requests of the drain                                  *)
(***************************************************************************)
\* operations.ts 20-89: the columns the payload of the mutation names
PayloadKeys(operation) ==
  CASE operation.operationType = "create" ->
         {"id"} \cup {f \in Fields : operation.value.obj[f] # Undefined}
    [] operation.operationType = "delete" -> {"deleted", "updated_at"}
    [] operation.operationType = "increment" -> {operation.field[1], "updated_at"}
    [] OTHER ->
         (IF operation.field # Undefined THEN {operation.field[1]}
          ELSE {f \in Fields : operation.value.obj[f] # Undefined}) \cup {"updated_at"}

\* the outbox row whose request goes out in slot d
Sending(d) == drains[d].pendingItems[drains[d].i]

\* slot d sends a request in this step
Sends(d) == drains[d].pc = "send" /\ drains'[d].pc = "settle"

\* C31: the push of a delete never removes the remote row: it writes
\* deleted = true together with updated_at and device_id; when the remote
\* row does not exist the request counts as a success.
C31_DeleteIsSoft ==
  [][\A d \in DrainSlots :
       (Sends(d) /\ Sending(d).operationType = "delete") =>
          LET e == Sending(d).entityId IN
          /\ remote[e].present => remote'[e].present
          /\ (remote[e].present /\ drains'[d].result = "applied") =>
               /\ remote'[e].deleted
               /\ remote'[e].updated_at = Sending(d).timestamp
               /\ {"deleted", "updated_at", "device_id"} \subseteq PayloadKeys(Sending(d))
          /\ ~remote[e].present => drains'[d].result # "error"]_vars

(***************************************************************************)
(* Specification of the pushed create: a daily task is created, the engine *)
(* start and the debounce timer start drains, the remote may answer with   *)
(* errors, time passes.                                                    *)
(***************************************************************************)
NextCreate ==
  \/ CreateDailyTask("t1")
  \/ \E d \in DrainSlots : StartSyncEngine(d)
  \/ \E d \in DrainSlots : TimerFire(d)
  \/ \E d \in DrainSlots : PushSend(d)
  \/ \E d \in DrainSlots : PushSettle(d)
  \/ \E d \in DrainSlots : PushFinish(d)
  \/ RemoteToggle
  \/ Tick

SpecCreate == InitEngine /\ [][NextCreate]_vars

\* slot d handles the outcome of its request in this step
Settles(d) == drains[d].pc = "settle" /\ drains'[d].pc # "settle"

\* C32: a create whose id exists on the remote is a success: the remote row
\* is unchanged, the row leaves the outbox and no retry is counted; any
\* other error leaves the row in the outbox with retries + 1 and a fresh
\* timestamp.
C32_DuplicateCreateIsSuccess ==
  [][\A d \in DrainSlots :
       /\ (Sends(d) /\ Sending(d).operationType = "create") =>
            /\ (remoteOk /\ remote[Sending(d).entityId].present) =>
                 (remote' = remote /\ drains'[d].result = "applied")
            /\ ~remoteOk => (remote' = remote /\ drains'[d].result = "error")
       /\ (Settles(d) /\ Sending(d).operationType = "create") =>
            /\ drains[d].result = "applied" =>
                 Sending(d).id \notin ItemIds(syncQueue')
            /\ drains[d].result = "error" =>
                 /\ Sending(d).id \in ItemIds(syncQueue')
                 /\ Sending(d).id \in ItemIds(syncQueue)
                 /\ ItemById(syncQueue', Sending(d).id).retries =
                      ItemById(syncQueue, Sending(d).id).retries + 1
                 /\ ItemById(syncQueue', Sending(d).id).timestamp = now]_vars

(***************************************************************************)
(* Specification of the stopped engine: the engine is started and stopped, *)
(* daily tasks are created and deleted, the device goes offline and        *)
(* online, the debounce timer fires, time passes.                          *)
(***************************************************************************)
\* engine.ts 1173-1176 with the debounce timer left running
TimersAfterStop_TimerKept(ts, handle) == ts

\* engine.ts 1173-1176: clearTimeout of the stored handle
TimersAfterStop(ts, handle) ==
  IF handle # Undefined THEN ts \ {handle[1]} ELSE ts

\* engine.ts 1169-1177: stopSyncEngine of a started engine
StopSyncEngine ==
  /\ listening
  /\ listening' = FALSE
  /\ timers' = TimersAfterStop(timers, syncTimeout)
  /\ syncTimeout' = Undefined
  /\ UNCHANGED <<extVars, local, remote, syncQueue, nextId, now, online, remoteOk, drains,
                 sentLog, syncStatus, helper, origQueue, origRemote, prevQueue,
                 coalesceRuns, lastCoalesced>>

NextStop ==
  \/ \E e \in Entities : CreateDailyTask(e)
  \/ \E e \in Entities : DeleteDailyTask(e)
  \/ \E d \in DrainSlots : StartSyncEngine(d)
  \/ StopSyncEngine
  \/ \E d \in DrainSlots : GoOnline(d)
  \/ GoOffline
  \/ \E d \in DrainSlots : TimerFire(d)
  \/ \E d \in DrainSlots : PushSend(d)
  \/ \E d \in DrainSlots : PushSettle(d)
  \/ \E d \in DrainSlots : PushFinish(d)
  \/ Tick

SpecStop == InitEngine /\ [][NextStop]_vars

\* the engine is stopped and no push has been scheduled since
Stopped == ~listening /\ syncTimeout = Undefined

Quiet == InFlight = {} /\ helper.pc = "idle" /\ syncQueue = <<>>

\* C34: a write that is enqueued, or merged into a pending outbox row, while
\* a drain is in flight is not lost: when a drain removes the row it has
\* sent, the row holds nothing that was added after the drain read it, and
\* when the outbox is empty and nothing is running the remote row has the
\* values of the local row.
C34_WriteDuringDrainNotLost ==
  /\ [][\A d \in DrainSlots :
          (/\ Settles(d)
           /\ drains[d].result # "error"
           /\ Sending(d).id \in ItemIds(syncQueue)
           /\ ItemById(syncQueue, Sending(d).id).value # Sending(d).value)
          => Sending(d).id \in ItemIds(syncQueue')]_vars
  /\ [](Quiet => remote["g1"].vals = local["g1"].vals)

(***************************************************************************)
(* Claims about the status at the end of a drain                           *)
(***************************************************************************)
\* the drain in slot d ends in this step
Finishes(d) == drains[d].pc = "finish" /\ drains'[d].pc = "idle"

\* a request of the drain in slot d failed: a row of its snapshot is in the
\* outbox with more retries than the drain read
FailedIn(d) ==
  \E i \in 1..Len(drains[d].pendingItems) :
     /\ drains[d].pendingItems[i].id \in ItemIds(syncQueue)
     /\ ItemById(syncQueue, drains[d].pendingItems[i].id).retries
          > drains[d].pendingItems[i].retries

\* C35: when a drain ends, pendingCount is the number of rows in the outbox,
\* the status is idle with lastSyncTime set only if the outbox is empty, and
\* a drain in which a request failed ends with status error and
\* pendingCount >= 1.
C35_StatusAfterDrainMatchesOutbox ==
  [][\A d \in DrainSlots :
       Finishes(d) =>
         /\ syncStatus'.pendingCount = Len(syncQueue)
         /\ syncStatus'.status = "idle" => syncQueue = <<>>
         /\ syncStatus'.lastSyncTime # syncStatus.lastSyncTime => syncQueue = <<>>
         /\ FailedIn(d) => (syncStatus'.status = "error" /\ syncStatus'.pendingCount >= 1)]_vars

(***************************************************************************)
(* Specification of the calls of the status store: setStatus and reset are *)
(* called up to MaxStatusCalls times, the timeout callbacks the store has  *)
(* scheduled and not cleared run when they are due, time passes.           *)
(***************************************************************************)
MaxStatusCalls == 3

\* dates.ts 108-110: the call returns before it touches the pending change
RedundantCall(st, status) == status = st.currentStatus /\ status # "syncing"

\* the callback a store state keeps in pendingStatusChange
PendingTimer(st) ==
  IF st.pendingStatusChange # Undefined THEN {st.pendingStatusChange[1]} ELSE {}

\* dates.ts 113-116 without the clearTimeout
TimersAfterSetStatus_NotCleared(live, st, st2, status) ==
  IF RedundantCall(st, status) THEN live ELSE live \cup PendingTimer(st2)

\* dates.ts 113-116, 129-138: clearTimeout of the pending change, setTimeout
\* of the new one
TimersAfterSetStatus(live, st, st2, status) ==
  IF RedundantCall(st, status) THEN live
  ELSE (live \ PendingTimer(st)) \cup PendingTimer(st2)

\* dates.ts 106-148: setStatus(status)
SetStatusCall(status) ==
  /\ hist.statusCalls < MaxStatusCalls
  /\ statusStore' = setStatusDebounced(statusStore, status, now)
  /\ hist' = [HistAfterStatus(hist, statusStore, statusStore', now) EXCEPT
                !.requested = status, !.requestedAt = now,
                !.statusCalls = @ + 1,
                !.statusTimers = TimersAfterSetStatus(@, statusStore, statusStore', status),
                !.superseded = @ \/ (/\ ~RedundantCall(statusStore, status)
                                     /\ \E tm \in PendingTimer(statusStore) :
                                          tm.status # status)]
  /\ UNCHANGED <<local, remote, syncQueue, nextId, now, online, remoteOk, syncTimeout,
                 timers, drains, sentLog, syncStatus, listening, helper, origQueue,
                 origRemote, prevQueue, coalesceRuns, lastCoalesced, pull, boot,
                 resolved, conflictHistory, realtime, network>>

\* dates.ts 158-166: reset()
ResetStatus ==
  /\ hist.statusCalls < MaxStatusCalls
  /\ statusStore' = InitStatusStore
  /\ hist' = [HistAfterStatus(hist, statusStore, statusStore', now) EXCEPT
                !.requested = "idle", !.requestedAt = now,
                !.statusCalls = @ + 1,
                !.statusTimers = @ \ PendingTimer(statusStore)]
  /\ UNCHANGED <<local, remote, syncQueue, nextId, now, online, remoteOk, syncTimeout,
                 timers, drains, sentLog, syncStatus, listening, helper, origQueue,
                 origRemote, prevQueue, coalesceRuns, lastCoalesced, pull, boot,
                 resolved, conflictHistory, realtime, network>>

\* dates.ts 132-137: a scheduled callback runs with the status it closed over
StatusCallback ==
  /\ \E tm \in hist.statusTimers :
       /\ tm.timeout <= now
       /\ statusStore' = Published([statusStore EXCEPT !.syncingStartTime = Undefined,
                                                       !.pendingStatusChange = Undefined],
                                   tm.status)
       /\ hist' = [HistAfterStatus(hist, statusStore, statusStore', now) EXCEPT
                     !.statusTimers = @ \ {tm}]
  /\ UNCHANGED <<local, remote, syncQueue, nextId, now, online, remoteOk, syncTimeout,
                 timers, drains, sentLog, syncStatus, listening, helper, origQueue,
                 origRemote, prevQueue, coalesceRuns, lastCoalesced, pull, boot,
                 resolved, conflictHistory, realtime, network>>

\* the clock advances by StatusTickMs, also past the explored window while a
\* callback is scheduled; a due callback runs before time moves on
TickCalls ==
  /\ now < StartMs + MaxStatusTicks * StatusTickMs \/ hist.statusTimers # {}
  /\ \A tm \in hist.statusTimers : tm.timeout > now
  /\ now' = now + StatusTickMs
  /\ UNCHANGED <<extVars, local, remote, syncQueue, nextId, online, remoteOk,
                 syncTimeout, timers, drains, sentLog, syncStatus, listening, helper,
                 origQueue, origRemote, prevQueue, coalesceRuns, lastCoalesced>>

NextCalls ==
  \/ \E status \in SyncStatuses : SetStatusCall(status)
  \/ ResetStatus
  \/ StatusCallback
  \/ TickCalls

SpecCalls == InitStatus /\ [][NextCalls]_vars

\* a scheduled callback runs, and time passes
FairSpecCalls ==
  /\ InitStatus /\ [][NextCalls]_vars
  /\ WF_vars(StatusCallback)
  /\ WF_vars(TickCalls)

\* C36: the status asked for last wins: every scheduled callback carries the
\* status asked for last, at most one callback is scheduled, and when the
\* calls have stopped the published status becomes and stays the status
\* asked for last.
C36_LastRequestedStatusWins ==
  /\ [](\A tm \in hist.statusTimers : tm.status = hist.requested)
  /\ [](Cardinality(hist.statusTimers) <= 1)
  /\ [](hist.statusTimers = {} => statusStore.status = hist.requested)
  /\ <>[](statusStore.status = hist.requested)

\* C36 witness: 'error' was asked for while a change to 'idle' was waiting
\* for the end of the 500 ms, and 'error' has been published
C36_Witness ==
  /\ hist.superseded
  /\ hist.requested = "error"
  /\ hist.requestedAt > hist.syncingSince
  /\ hist.requestedAt - hist.syncingSince < MIN_SYNCING_TIME
  /\ statusStore.status = "error"
  /\ hist.leftAt = hist.syncingSince + MIN_SYNCING_TIME
  /\ hist.statusTimers = {}

(***************************************************************************)
(* Claims about the reconnect callbacks                                    *)
(***************************************************************************)
\* C37: the reconnect callbacks run only while the value of the network
\* store is true: when the connection drops between the online event and
\* the end of the 500 ms delay, the callbacks scheduled by that event do not
\* run.
C37_ReconnectOnlyWhileOnline ==
  [][network'.pending < network.pending => network.currentValue]_vars

(***************************************************************************)
(* Specification of the pull around a local delete: the goal g1 is on both *)
(* sides and is deleted or updated on this device, the lists are fetched   *)
(* and merged into the cache, the debounce timer starts the drains, time   *)
(* passes.                                                                 *)
(***************************************************************************)
NextPullDelete ==
  \/ DeleteGoalWrite("g1")
  \/ DeleteGoalQueue
  \/ \E u \in PullUpdates : UpdateWrite("g1", u)
  \/ UpdateQueue
  \/ PullFetch
  \/ PullMerge
  \/ PullCommit
  \/ \E d \in DrainSlots : TimerFire(d)
  \/ \E d \in DrainSlots : PushSend(d)
  \/ \E d \in DrainSlots : PushSettle(d)
  \/ \E d \in DrainSlots : PushFinish(d)
  \/ Tick

SpecPullDelete == InitPull /\ [][NextPullDelete]_vars

\* the outbox holds a delete of entity e
DeletePending(e) ==
  \E i \in 1..Len(syncQueue) : /\ syncQueue[i].entityId = e
                               /\ syncQueue[i].operationType = "delete"

\* C38: while the delete of a row is waiting in the outbox, the row is
\* absent from the local store (or marked deleted), whatever pulls run.
C38_PendingDeleteStaysDeleted ==
  \A e \in Entities :
    DeletePending(e) => (~local[e].present \/ local[e].deleted)

(***************************************************************************)
(* C39: a goal created while fetchGoalLists is between its read of the     *)
(* local tables and its clear + bulkPut.                                   *)
(***************************************************************************)
\* goals.ts 12-36 createGoal: db.goals.add(newGoal)
CreateGoalWrite(e) ==
  /\ helper.pc = "idle"
  /\ TableOf(e) = "goals"
  /\ ~local[e].present /\ ~remote[e].present
  /\ nextId <= MaxQueue
  /\ local' = [local EXCEPT ![e] = Row(ZeroVals, now)]
  /\ helper' = [op |-> "create", e |-> e, updates |-> [f \in Fields |-> Some(0)],
                pc |-> "queue"]
  /\ UNCHANGED <<extVars, remote, syncQueue, nextId, now, online, remoteOk, syncTimeout, timers,
                 drains, sentLog, syncStatus, listening, origQueue, origRemote,
                 prevQueue, coalesceRuns, lastCoalesced>>

\* goals.ts 39-50 createGoal: queueSync('goals', 'create', id, payload),
\* scheduleSyncPush
CreateGoalQueue ==
  /\ helper.pc = "queue" /\ helper.op = "create"
  /\ helper' = IdleHelper
  /\ syncQueue' = queueSync(syncQueue, nextId, helper.e, "create", helper.updates, now)
  /\ nextId' = nextId + 1
  /\ scheduleSyncPush
  /\ UNCHANGED <<extVars, local, remote, now, online, remoteOk, drains, sentLog, syncStatus,
                 listening, origQueue, origRemote, prevQueue, coalesceRuns, lastCoalesced>>

\* a fresh install: no goal in the cache or on the server
InitPullCreate ==
  /\ syncQueue = <<>>
  /\ remote = NoRows
  /\ local = NoRows
  /\ nextId = 1
  /\ now = StartMs
  /\ online = TRUE
  /\ remoteOk = TRUE
  /\ InitVolatile
  /\ origQueue = syncQueue
  /\ origRemote = remote
  /\ prevQueue = syncQueue
  /\ coalesceRuns = 0
  /\ lastCoalesced = 0

NextPullCreate ==
  \/ CreateGoalWrite("g1")
  \/ CreateGoalQueue
  \/ \E u \in PullUpdates : UpdateWrite("g1", u)
  \/ UpdateQueue
  \/ PullFetch
  \/ PullMerge
  \/ PullCommit
  \/ \E d \in DrainSlots : TimerFire(d)
  \/ \E d \in DrainSlots : PushSend(d)
  \/ \E d \in DrainSlots : PushSettle(d)
  \/ \E d \in DrainSlots : PushFinish(d)
  \/ RemoteToggle
  \/ Tick

SpecPullCreate == InitPullCreate /\ [][NextPullCreate]_vars

\* the outbox holds a create of entity e
CreatePending(e) ==
  \E i \in 1..Len(syncQueue) : /\ syncQueue[i].entityId = e
                               /\ syncQueue[i].operationType = "create"

\* C39: when no pull is in flight, every create waiting in the outbox has
\* its row in the local store: a row created while a pull was between its
\* read of the local table and its rewrite of the cache survives the pull.
C39_CreatedRowSurvivesPull ==
  pull.pc = "idle" =>
    \A e \in Entities : CreatePending(e) => local[e].present

====
